---------------------------- MODULE Spec2Model ----------------------------
(***************************************************************************)
(* devtidy: the scan / size / clean engine and the session state machine   *)
(* of src/core/app.rs, src/core/models.rs, src/services/scanner.rs and     *)
(* src/cleaner.rs.                                                         *)
(*                                                                         *)
(* The control loop of run_app is one process (variable loop); every       *)
(* scan_background task, every Size Resolver worker, the Cleaner's outer   *)
(* task and every deletion unit is a process of its own.  They share the   *)
(* filesystem (fs) and talk through the three channels of the code: the    *)
(* scan channel (scan_rx), a size channel per scan (size_rx) and the       *)
(* Cleaner's progress channel (clean.rx).                                  *)
(***************************************************************************)
EXTENDS Integers, Sequences, FiniteSets, TLC

(***************************************************************************)
(* Bounds of the model.                                                    *)
(***************************************************************************)
\* Spec: scans started in one run (the initial one and the rescans), and the
\* input events (keys, mouse scrolls) of one run that change the session
MaxScans == 1
MaxEvents == 4
\* SpecRescan: the same for runs with one rescan, on a tree of at most one
\* entry
RescanScans == 2
RescanEvents == 4
\* SpecRepeat: the same for runs with repeated rescans, on a tree of at most
\* one entry
RepeatScans == 3
RepeatEvents == 3
\* SpecLive: the same for the runs whose progress is checked
LiveScans == 1
LiveEvents == 2
\* the worker count num_cpus::get().max(2) of the machine
ThreadCount == 3
\* SpecSizes: the longest item list handed to the Size Resolver, and the
\* largest worker count it is run with (the smallest is 2)
MaxItems == 5
MaxThreads == 4
\* the furthest the help text is scrolled
MaxHelpScroll == 1
\* SpecWalk: the largest --depth and the largest thread count the Walker is
\* run with (the smallest are 1 and 2)
MaxDepth == 2
WalkThreads == 2

\* capacity of the scan channel, mpsc::channel::<ScanUpdate>(32)
ScanChannelCapacity == 32
\* capacity of the size channel and of the Cleaner's progress channel
SizeChannelCapacity == 32
ProgressChannelCapacity == 32

(***************************************************************************)
(* Option<T>: None is the empty sequence, Some(x) the one-element one.     *)
(***************************************************************************)
None == <<>>
Some(x) == <<x>>

(***************************************************************************)
(* The directory tree under the scan root.  A path is the sequence of the *)
(* bytes that tell it from the other paths (47 is '/', 116 stands for the  *)
(* name target, the common prefix build- is left out); 254 and 255 are     *)
(* bytes that are no valid UTF-8.  Every entry of Tree is an entry the     *)
(* Walker matches:                                                         *)
(*   <<255>>          a directory, build-\xFF                              *)
(*   <<255, 47, 116>> a directory nested in it, build-\xFF/target          *)
(*   <<254>>          a regular file, build-\xFE                           *)
(* bytes is the length of a file, and for a directory the total length of  *)
(* the regular files beneath it that lie in no nested entry of Tree.       *)
(***************************************************************************)
DirA == <<255>>
DirB == <<255, 47, 116>>
FileC == <<254>>

\* the entries the Size Resolver is run on by itself: i directories
\* <<100 + i>> and i regular files <<48 + i>>, i in 1..MaxItems
SizeDirs == {<<100 + i>> : i \in 1..MaxItems}
SizeFiles == {<<48 + i>> : i \in 1..MaxItems}

(***************************************************************************)
(* The tree the Walker is run on by itself.  Here a path is the sequence   *)
(* of all its bytes (47 is '/', 46 is '.', 42 is '*'); /r is the directory *)
(* the scan is started in, /f a regular file beside it.  bytes is the      *)
(* length of a regular file and 0 for a directory.                         *)
(***************************************************************************)
\* /r
RootDir == <<47, 114>>
\* /f
PlainFile == <<47, 102>>
\* /r/.gitignore
GitignoreFile == <<47, 114, 47, 46, 103, 105, 116, 105, 103, 110, 111, 114, 101>>
\* /r/target
TargetDir == <<47, 114, 47, 116, 97, 114, 103, 101, 116>>
\* /r/target/a
TargetA == <<47, 114, 47, 116, 97, 114, 103, 101, 116, 47, 97>>
\* /r/target/d
TargetD == <<47, 114, 47, 116, 97, 114, 103, 101, 116, 47, 100>>
\* /r/target/d/b
TargetDB == <<47, 114, 47, 116, 97, 114, 103, 101, 116, 47, 100, 47, 98>>
\* /r/target/d/c
TargetDC == <<47, 114, 47, 116, 97, 114, 103, 101, 116, 47, 100, 47, 99>>
\* /r/target/u
TargetU == <<47, 114, 47, 116, 97, 114, 103, 101, 116, 47, 117>>
\* /r/target/u/e
TargetUE == <<47, 114, 47, 116, 97, 114, 103, 101, 116, 47, 117, 47, 101>>
\* /r/target/v
TargetV == <<47, 114, 47, 116, 97, 114, 103, 101, 116, 47, 118>>
\* /r/.next
NextDir == <<47, 114, 47, 46, 110, 101, 120, 116>>
\* /r/.next/out
NextOut == <<47, 114, 47, 46, 110, 101, 120, 116, 47, 111, 117, 116>>
\* /r/.git
GitDir == <<47, 114, 47, 46, 103, 105, 116>>
\* /r/.git/build
GitBuild == <<47, 114, 47, 46, 103, 105, 116, 47, 98, 117, 105, 108, 100>>
\* /r/a
SubDir == <<47, 114, 47, 97>>
\* /r/a/target
SubTarget == <<47, 114, 47, 97, 47, 116, 97, 114, 103, 101, 116>>
\* /r/a/target/x
SubTargetX == <<47, 114, 47, 97, 47, 116, 97, 114, 103, 101, 116, 47, 120>>
\* /r/build-x.log
BuildLog == <<47, 114, 47, 98, 117, 105, 108, 100, 45, 120, 46, 108, 111, 103>>

WalkTree ==
     (RootDir :> [kind |-> "dir", bytes |-> 0])
  @@ (PlainFile :> [kind |-> "file", bytes |-> 1])
  @@ (GitignoreFile :> [kind |-> "file", bytes |-> 2])
  @@ (TargetDir :> [kind |-> "dir", bytes |-> 0])
  @@ (TargetA :> [kind |-> "file", bytes |-> 100])
  @@ (TargetD :> [kind |-> "dir", bytes |-> 0])
  @@ (TargetDB :> [kind |-> "file", bytes |-> 250])
  @@ (TargetDC :> [kind |-> "file", bytes |-> 0])
  @@ (TargetU :> [kind |-> "dir", bytes |-> 0])
  @@ (TargetUE :> [kind |-> "file", bytes |-> 7])
  @@ (TargetV :> [kind |-> "file", bytes |-> 9])
  @@ (NextDir :> [kind |-> "dir", bytes |-> 0])
  @@ (NextOut :> [kind |-> "dir", bytes |-> 0])
  @@ (GitDir :> [kind |-> "dir", bytes |-> 0])
  @@ (GitBuild :> [kind |-> "dir", bytes |-> 0])
  @@ (SubDir :> [kind |-> "dir", bytes |-> 0])
  @@ (SubTarget :> [kind |-> "dir", bytes |-> 0])
  @@ (SubTargetX :> [kind |-> "file", bytes |-> 4])
  @@ (BuildLog :> [kind |-> "file", bytes |-> 5])

\* the entries that cannot be read: read_dir fails on the directory /r/target/u
\* and metadata on the file /r/target/v
Unreadable == {TargetU, TargetV}

Tree == (DirA :> [kind |-> "dir", bytes |-> 2, item_type |-> "Wildcard build output directories"])
     @@ (DirB :> [kind |-> "dir", bytes |-> 1, item_type |-> "Rust build artifacts"])
     @@ (FileC :> [kind |-> "file", bytes |-> 3, item_type |-> "Wildcard build output directories"])
     @@ [p \in SizeDirs |-> [kind |-> "dir", bytes |-> p[1] - 100, item_type |-> "Wildcard build output directories"]]
     @@ [p \in SizeFiles |-> [kind |-> "file", bytes |-> 3, item_type |-> "Log files"]]
     @@ WalkTree

Paths == DOMAIN Tree

\* p lies beneath directory q
IsUnder(p, q) ==
  /\ Len(p) > Len(q) + 1
  /\ SubSeq(p, 1, Len(q)) = q
  /\ p[Len(q) + 1] = 47

\* the filesystems the program is started on: the empty tree, one entry, a
\* directory with the directory nested in it, a directory and a file
Trees == {{}, {DirA}, {FileC}, {DirA, DirB}, {DirA, FileC}}
SmallTrees == {{}, {DirA}, {FileC}}

RECURSIVE SumBytes(_)
SumBytes(S) ==
  IF S = {} THEN 0
  ELSE LET p == CHOOSE x \in S : TRUE IN Tree[p].bytes + SumBytes(S \ {p})

\* Path::is_dir, Path::is_file on the filesystem f
is_dir(p, f) == p \in f /\ Tree[p].kind = "dir"
is_file(p, f) == p \in f /\ Tree[p].kind = "file"

\* the entries of directory p: the paths with one more component
Children(p, f) ==
  {q \in f : IsUnder(q, p) /\ \A i \in (Len(p) + 2)..Len(q) : q[i] # 47}

\* get_directory_size that sums the regular files of the directory itself
\* and descends no further
get_directory_size_flat(p, f) ==
  IF p \notin f \/ p \in Unreadable THEN 0
  ELSE Tree[p].bytes + SumBytes({q \in Children(p, f) \ Unreadable : Tree[q].kind = "file"})

\* Iterator::sum over the sizes the walk yields, one per entry
RECURSIVE SumOf(_)
SumOf(fn) ==
  IF DOMAIN fn = {} THEN 0
  ELSE LET c == CHOOSE x \in DOMAIN fn : TRUE
       IN fn[c] + SumOf([x \in DOMAIN fn \ {c} |-> fn[x]])

\* scanner.rs get_directory_size: WalkDir below path with no depth limit, the
\* lengths of the regular files summed.  An entry that yields an error (a
\* directory that cannot be read, a file whose metadata cannot be read) is
\* dropped by filter_map; a path that is gone yields no entry and the sum
\* is 0.
RECURSIVE get_directory_size(_, _)
get_directory_size(p, f) ==
  IF p \notin f \/ p \in Unreadable THEN 0
  ELSE LET kids == Children(p, f)
           sizes == [c \in kids |-> get_directory_size(c, f)]
       IN Tree[p].bytes + SumOf(sizes)

(***************************************************************************)
(* CleanableItem (models.rs).                                              *)
(***************************************************************************)
\* CleanableItem::new: selected starts false
CleanableItem(path, item_type, size) ==
  [path |-> path, item_type |-> item_type, size |-> size, selected |-> FALSE]

\* to_string_lossy: every byte that is no valid UTF-8 becomes U+FFFD
ToStringLossy(p) == [i \in DOMAIN p |-> IF p[i] >= 128 THEN 65533 ELSE p[i]]

display_path(item) == ToStringLossy(item.path)

(***************************************************************************)
(* Sequence helpers.                                                       *)
(***************************************************************************)
RECURSIVE SeqSum(_)
SeqSum(s) == IF s = <<>> THEN 0 ELSE Head(s) + SeqSum(Tail(s))

Sizes(s) == [i \in DOMAIN s |-> s[i].size]

\* all orders in which the entries of a set can be listed
Orders(S) ==
  {s \in [1..Cardinality(S) -> S] : \A i, j \in DOMAIN s : i # j => s[i] # s[j]}

\* Vec::sort_by(|a, b| b.size.cmp(&a.size)): stable, descending by size
RECURSIVE InsertBySize(_, _)
InsertBySize(x, s) ==
  IF s = <<>> THEN <<x>>
  ELSE IF Head(s).size >= x.size THEN <<Head(s)>> \o InsertBySize(x, Tail(s))
       ELSE <<x>> \o s

RECURSIVE SortDesc(_)
SortDesc(s) ==
  IF s = <<>> THEN <<>>
  ELSE InsertBySize(s[Len(s)], SortDesc(SubSeq(s, 1, Len(s) - 1)))

(***************************************************************************)
(* State.                                                                  *)
(*   app    the session, struct App of models.rs                           *)
(*   loop   where the control loop of run_app stands: "recv" before        *)
(*          try_recv, "poll" before the input poll, "cleaning" inside      *)
(*          start_cleaning's receive loop, "exited" after the break        *)
(*   scan_rx  the scan channel, one for all scans of a run                 *)
(*   scans  the scan_background tasks, in the order they were spawned      *)
(*   fs     the entries of Tree that exist                                 *)
(*   clean  the Cleaner: the outer task, its deletion units, the shared    *)
(*          result vector and the progress channel                         *)
(*   events input events handled so far that changed the session          *)
(*   hist   history kept for the properties only: which scans' ItemsFound  *)
(*          was applied, the session and filesystem as a clean was         *)
(*          launched, the delete calls made and those that returned Ok,    *)
(*          and for every deletion unit what it has done so far            *)
(*   limits the parameters of this run: the scans started and the events  *)
(*          that change the session at most, and the machine's worker      *)
(*          count                                                          *)
(***************************************************************************)
VARIABLES app, loop, scan_rx, scans, fs, clean, events, hist, limits

vars == <<app, loop, scan_rx, scans, fs, clean, events, hist, limits>>

\* how many scan_background tasks were spawned
nscans == Len(scans)

\* App::default and App::new, then run_app lines 17-18
AppDefault ==
  [state |-> "Scanning", previous_state |-> None, items |-> <<>>,
   list_state |-> None, scanning |-> TRUE, cleaning |-> FALSE,
   total_size |-> 0, cleaned_size |-> 0, scanned_items |-> 0,
   calculating_sizes |-> FALSE, pending_sizes |-> {},
   total_size_jobs |-> 0, completed_size_jobs |-> 0,
   progress |-> <<0, 1>>, processing_item |-> None, help_scroll |-> 0]

\* the Walker of a scan before its threads are spawned: the entries left to
\* each thread (chunks), the items each has matched (local), the threads
\* that have appended theirs to the shared vector (extended), that vector
\* (items) and the shared set seen_paths (seen)
NoWalk ==
  [chunks |-> <<>>, local |-> <<>>, extended |-> {}, items |-> <<>>, seen |-> {}]

\* a scan_background task as it is spawned
ScanSpawned ==
  [pc |-> "walk", items |-> <<>>, total |-> 0, completed |-> 0,
   size_rx |-> <<>>, workers |-> <<>>, walk |-> NoWalk]

\* no clean was launched yet
CleanIdle ==
  [outer |-> "idle", selected |-> <<>>, total |-> 0, spawned |-> 0,
   units |-> <<>>, results |-> <<>>, rx |-> <<>>]

HistInit ==
  [found |-> {}, pre_items |-> <<>>, pre_fs |-> {}, attempts |-> {}, deleted |-> {},
   log |-> <<>>]

(***************************************************************************)
(* impl App (models.rs).                                                   *)
(***************************************************************************)
IsSelected(item) == item.selected

selected_count(a) == Len(SelectSeq(a.items, IsSelected))

selected_size(a) == SeqSum(Sizes(SelectSeq(a.items, IsSelected)))

sort_by_size(a) == [a EXCEPT !.items = SortDesc(a.items)]

\* App::next that stops at the last item instead of wrapping
next_clamped(a) ==
  IF a.items = <<>> THEN a
  ELSE LET i == IF a.list_state = None THEN 0
                ELSE IF a.list_state[1] >= Len(a.items) - 1 THEN Len(a.items) - 1
                     ELSE a.list_state[1] + 1
       IN [a EXCEPT !.list_state = Some(i)]

\* App::next
next(a) ==
  IF a.items = <<>> THEN a
  ELSE LET i == IF a.list_state = None THEN 0
                ELSE IF a.list_state[1] >= Len(a.items) - 1 THEN 0
                     ELSE a.list_state[1] + 1
       IN [a EXCEPT !.list_state = Some(i)]

\* App::previous
previous(a) ==
  IF a.items = <<>> THEN a
  ELSE LET i == IF a.list_state = None THEN 0
                ELSE IF a.list_state[1] = 0 THEN Len(a.items) - 1
                     ELSE a.list_state[1] - 1
       IN [a EXCEPT !.list_state = Some(i)]

\* App::toggle_selection; list_state holds a 0-based index
toggle_selection(a) ==
  IF a.list_state # None /\ a.list_state[1] < Len(a.items)
  THEN [a EXCEPT !.items[a.list_state[1] + 1].selected = ~@]
  ELSE a

(***************************************************************************)
(* process_scan_update (app.rs 180-234).  A pending_sizes map is kept as   *)
(* the set of its (path, size) pairs.                                      *)
(***************************************************************************)
\* HashMap::insert
MapInsert(m, k, v) == {e \in m : e[1] # k} \cup {<<k, v>>}

\* the loop of lines 200-205: the first item with the path gets the size
FirstWithPath(items, path) ==
  IF \E i \in DOMAIN items : items[i].path = path
  THEN CHOOSE i \in DOMAIN items :
         /\ items[i].path = path
         /\ \A j \in 1..(i - 1) : items[j].path # path
  ELSE 0

SetSize(items, path, size) ==
  LET i == FirstWithPath(items, path)
  IN IF i = 0 THEN items ELSE [items EXCEPT ![i].size = size]

SelectFirst(a) == IF a.items # <<>> THEN [a EXCEPT !.list_state = Some(0)] ELSE a

OnItemsFound(a, m) ==
  [a EXCEPT !.items = m.items,
            !.scanned_items = Len(m.items),
            !.total_size_jobs = Len(m.items),
            !.completed_size_jobs = 0,
            !.pending_sizes = {},
            !.calculating_sizes = IF m.items # <<>> THEN TRUE ELSE @]

OnItemsScanned(a, m) == [a EXCEPT !.scanned_items = m.count]

\* OnSizeUpdate that gives the k-th size to arrive to the k-th item
OnSizeUpdateByPosition(a, m) ==
  [a EXCEPT !.pending_sizes = MapInsert(@, m.path, m.size),
            !.completed_size_jobs = @ + 1,
            !.items = IF a.completed_size_jobs + 1 \in DOMAIN @
                      THEN [@ EXCEPT ![a.completed_size_jobs + 1].size = m.size]
                      ELSE @]

OnSizeUpdate(a, m) ==
  [a EXCEPT !.pending_sizes = MapInsert(@, m.path, m.size),
            !.completed_size_jobs = @ + 1,
            !.items = SetSize(@, m.path, m.size)]

\* OnSizeCalculationComplete without the sort
OnSizeCalculationCompleteUnsorted(a) ==
  SelectFirst([a EXCEPT !.total_size = SeqSum(Sizes(a.items)),
                        !.state = "Selecting",
                        !.scanning = FALSE,
                        !.calculating_sizes = FALSE])

OnSizeCalculationComplete(a) ==
  LET s == sort_by_size(a)
  IN SelectFirst([s EXCEPT !.total_size = SeqSum(Sizes(s.items)),
                           !.state = "Selecting",
                           !.scanning = FALSE,
                           !.calculating_sizes = FALSE])

OnScanComplete(a) ==
  IF ~a.calculating_sizes
  THEN SelectFirst([a EXCEPT !.state = "Selecting", !.scanning = FALSE])
  ELSE a

process_scan_update(a, m) ==
  CASE m.type = "ItemsFound" -> OnItemsFound(a, m)
    [] m.type = "ItemsScanned" -> OnItemsScanned(a, m)
    [] m.type = "SizeUpdate" -> OnSizeUpdate(a, m)
    [] m.type = "SizeCalculationComplete" -> OnSizeCalculationComplete(a)
    [] m.type = "ScanComplete" -> OnScanComplete(a)

(***************************************************************************)
(* handle_key_event (app.rs 236-328).  Keys: "k" is Up or k, "j" is Down   *)
(* or j, "x" any key the handler does not name.  The result is the new     *)
(* session, whether the loop goes on (Ok(true)) and whether                *)
(* start_cleaning is called.                                               *)
(***************************************************************************)
Keys == {"q", "esc", "h", "c", "space", "k", "j", "pgup", "pgdn", "r", "x"}

EnterHelp(a) ==
  [a EXCEPT !.previous_state = Some(a.state), !.state = "Help", !.help_scroll = 0]

Stay(a) == [app |-> a, continue |-> TRUE, clean |-> FALSE]
Break(a) == [app |-> a, continue |-> FALSE, clean |-> FALSE]

\* KeyScanning that accepts StartClean
KeyScanningAcceptsClean(a, k) ==
  IF k \in {"q", "esc"} THEN Break(a)
  ELSE IF k = "h" THEN Stay(EnterHelp(a))
  ELSE IF k = "c" THEN [app |-> a, continue |-> TRUE, clean |-> TRUE]
  ELSE Stay(a)

KeyScanning(a, k) ==
  IF k \in {"q", "esc"} THEN Break(a)
  ELSE IF k = "h" THEN Stay(EnterHelp(a))
  ELSE Stay(a)

\* KeySelecting with StartClean accepted whatever the selection is
KeySelectingUnchecked(a, k) ==
  CASE k \in {"q", "esc"} -> Break(a)
    [] k = "h" -> Stay(EnterHelp(a))
    [] k = "c" -> [app |-> a, continue |-> TRUE, clean |-> TRUE]
    [] k = "space" -> IF ~a.cleaning
                      THEN LET t == toggle_selection(a)
                           IN Stay([t EXCEPT !.total_size = selected_size(t)])
                      ELSE Stay(a)
    [] k = "k" -> Stay(previous(a))
    [] k = "j" -> Stay(next(a))
    [] OTHER -> Stay(a)

KeySelecting(a, k) ==
  CASE k \in {"q", "esc"} -> Break(a)
    [] k = "h" -> Stay(EnterHelp(a))
    [] k = "c" -> IF selected_count(a) > 0 /\ ~a.cleaning
                  THEN [app |-> a, continue |-> TRUE, clean |-> TRUE]
                  ELSE Stay(a)
    [] k = "space" -> IF ~a.cleaning
                      THEN LET t == toggle_selection(a)
                           IN Stay([t EXCEPT !.total_size = selected_size(t)])
                      ELSE Stay(a)
    [] k = "k" -> Stay(previous(a))
    [] k = "j" -> Stay(next(a))
    [] OTHER -> Stay(a)

KeyCleaning(a, k) ==
  IF k \in {"q", "esc"} THEN Break(a)
  ELSE IF k = "h" THEN Stay(EnterHelp(a))
  ELSE Stay(a)

\* KeyComplete that leaves the cursor where it is
KeyCompleteKeepsCursor(a, k) ==
  CASE k \in {"q", "esc"} -> Break(a)
    [] k = "h" -> Stay(EnterHelp(a))
    [] OTHER -> Stay([a EXCEPT !.state = "Selecting"])

KeyComplete(a, k) ==
  CASE k \in {"q", "esc"} -> Break(a)
    [] k = "h" -> Stay(EnterHelp(a))
    [] OTHER -> Stay(SelectFirst([a EXCEPT !.state = "Selecting"]))

KeyHelp(a, k) ==
  CASE k \in {"esc", "h"} ->
         IF a.previous_state # None
         THEN Stay([a EXCEPT !.state = a.previous_state[1], !.previous_state = None])
         ELSE Stay([a EXCEPT !.state = "Selecting"])
    [] k = "k" -> Stay([a EXCEPT !.help_scroll = IF @ > 0 THEN @ - 1 ELSE @])
    [] k = "j" -> Stay([a EXCEPT !.help_scroll = @ + 1])
    [] k = "pgup" -> Stay([a EXCEPT !.help_scroll = IF @ >= 5 THEN @ - 5 ELSE 0])
    [] k = "pgdn" -> Stay([a EXCEPT !.help_scroll = @ + 5])
    [] OTHER -> Stay(a)

handle_key_event(a, k) ==
  CASE a.state = "Scanning" -> KeyScanning(a, k)
    [] a.state = "Selecting" -> KeySelecting(a, k)
    [] a.state = "Cleaning" -> KeyCleaning(a, k)
    [] a.state = "Complete" -> KeyComplete(a, k)
    [] a.state = "Help" -> KeyHelp(a, k)

\* run_app 56: the key that starts a rescan
IsRescan(a, k) == k = "r" /\ a.state = "Selecting" /\ ~a.cleaning

\* RescanReset with total_size and cleaned_size left as they are
RescanKeepsTotals(a) ==
  [a EXCEPT !.state = "Scanning", !.scanning = TRUE, !.scanned_items = 0,
            !.calculating_sizes = FALSE, !.pending_sizes = {},
            !.total_size_jobs = 0, !.completed_size_jobs = 0,
            !.progress = <<0, 1>>, !.processing_item = None,
            !.items = <<>>, !.list_state = None]

\* run_app 57-71
RescanReset(a) ==
  [a EXCEPT !.state = "Scanning", !.scanning = TRUE, !.scanned_items = 0,
            !.calculating_sizes = FALSE, !.pending_sizes = {},
            !.total_size_jobs = 0, !.completed_size_jobs = 0,
            !.progress = <<0, 1>>, !.processing_item = None,
            !.items = <<>>, !.list_state = None,
            !.total_size = 0, !.cleaned_size = 0]

\* run_app 86-102: a mouse scroll
OnMouse(a, kind) ==
  CASE a.state = "Selecting" /\ kind = "ScrollDown" -> next(a)
    [] a.state = "Selecting" /\ kind = "ScrollUp" -> previous(a)
    [] a.state = "Help" /\ kind = "ScrollDown" -> [a EXCEPT !.help_scroll = @ + 1]
    [] a.state = "Help" /\ kind = "ScrollUp" ->
         [a EXCEPT !.help_scroll = IF @ > 0 THEN @ - 1 ELSE @]
    [] OTHER -> a

(***************************************************************************)
(* The Walker's result (scanner.rs scan_directory): one item per entry     *)
(* that exists, a file with its length and a directory with size 0, in     *)
(* the order the worker threads appended them.                             *)
(***************************************************************************)
ItemOf(p) ==
  CleanableItem(p, Tree[p].item_type, IF Tree[p].kind = "file" THEN Tree[p].bytes ELSE 0)

scan_directory(f) == {[i \in DOMAIN o |-> ItemOf(o[i])] : o \in Orders(f)}

\* the filter of app.rs 142-145 and scanner.rs 178-182
NeedsSizing(items, f) ==
  SelectSeq(items, LAMBDA item : item.size = 0 /\ is_dir(item.path, f))

Min(x, y) == IF x < y THEN x ELSE y

\* calculate_directory_sizes without the filter of scanner.rs 178-182
calculate_all_sizes(items, f, n) ==
  LET chunk_size == (Len(items) \div n) + 1
      starts == {c \in 0..(Len(items) - 1) : c % chunk_size = 0}
  IN [w \in 1..Cardinality(starts) |->
        [i \in 1..(Min(w * chunk_size, Len(items)) - (w - 1) * chunk_size) |->
           items[(w - 1) * chunk_size + i].path]]

\* scanner.rs 188-206: the chunk [chunk_start, chunk_end) of each worker
calculate_directory_sizes(items, f, n) ==
  LET dir_items == NeedsSizing(items, f)
      chunk_size == (Len(dir_items) \div n) + 1
      starts == {c \in 0..(Len(dir_items) - 1) : c % chunk_size = 0}
  IN [w \in 1..Cardinality(starts) |->
        [i \in 1..(Min(w * chunk_size, Len(dir_items)) - (w - 1) * chunk_size) |->
           dir_items[(w - 1) * chunk_size + i].path]]

(***************************************************************************)
(* Messages of the scan channel (enum ScanUpdate).  scan names the task    *)
(* that sent the message; the code's messages carry no such field and no   *)
(* operation reads it: it is there for the properties.                     *)
(***************************************************************************)
ItemsFound(s, items) == [type |-> "ItemsFound", scan |-> s, items |-> items]
ItemsScanned(s, count) == [type |-> "ItemsScanned", scan |-> s, count |-> count]
SizeUpdate(s, path, size) == [type |-> "SizeUpdate", scan |-> s, path |-> path, size |-> size]
SizeCalculationComplete(s) == [type |-> "SizeCalculationComplete", scan |-> s]
ScanComplete(s) == [type |-> "ScanComplete", scan |-> s]

Running == loop # "exited"

\* tx.send(m).await of task s, which then stands at pc
Send(s, m, pc) ==
  /\ Len(scan_rx) < ScanChannelCapacity
  /\ scan_rx' = Append(scan_rx, m)
  /\ scans' = [scans EXCEPT ![s].pc = pc]
  /\ UNCHANGED <<app, loop, fs, clean, events, hist, limits>>

(***************************************************************************)
(* scan_background (app.rs 124-178), one action per await or filesystem    *)
(* read.                                                                   *)
(***************************************************************************)
\* 131-133: the Walker runs
ScanWalk(s) ==
  /\ Running /\ scans[s].pc = "walk"
  /\ \E items \in scan_directory(fs) :
       scans' = [scans EXCEPT ![s].pc = "sendFound", ![s].items = items]
  /\ UNCHANGED <<app, loop, scan_rx, fs, clean, events, hist, limits>>

\* 135
ScanSendFound(s) ==
  /\ Running /\ scans[s].pc = "sendFound"
  /\ Send(s, ItemsFound(s, scans[s].items), "sendScanned")

\* 136
ScanSendScanned(s) ==
  /\ Running /\ scans[s].pc = "sendScanned"
  /\ Send(s, ItemsScanned(s, Len(scans[s].items)), "sendComplete")

\* 138-140
ScanSendComplete(s) ==
  /\ Running /\ scans[s].pc = "sendComplete"
  /\ Send(s, ScanComplete(s), "count")

\* ScanCount that goes straight to the final ScanComplete when no directory
\* needs sizing
ScanCountSkipsSizeDone(s) ==
  /\ Running /\ scans[s].pc = "count"
  /\ LET dir_items == Len(NeedsSizing(scans[s].items, fs))
     IN scans' = [scans EXCEPT ![s].total = dir_items,
                               ![s].pc = IF dir_items > 0 THEN "calc" ELSE "sendFinal"]
  /\ UNCHANGED <<app, loop, scan_rx, fs, clean, events, hist, limits>>

\* 142-147: dir_items, and the branch on it
ScanCount(s) ==
  /\ Running /\ scans[s].pc = "count"
  /\ LET dir_items == Len(NeedsSizing(scans[s].items, fs))
     IN scans' = [scans EXCEPT ![s].total = dir_items,
                               ![s].pc = IF dir_items > 0 THEN "calc" ELSE "sendSizeDone"]
  /\ UNCHANGED <<app, loop, scan_rx, fs, clean, events, hist, limits>>

\* 148-153: calculate_directory_sizes spawns its workers
ScanCalculate(s) ==
  /\ Running /\ scans[s].pc = "calc"
  /\ scans' = [scans EXCEPT ![s].workers = calculate_directory_sizes(scans[s].items, fs, limits.threads),
                            ![s].pc = "relay"]
  /\ UNCHANGED <<app, loop, scan_rx, fs, clean, events, hist, limits>>

\* SizeWorker that writes the size into the session's item list itself
\* instead of sending it
SizeWorkerWritesItems(s, w) ==
  /\ Running /\ w \in DOMAIN scans[s].workers
  /\ scans[s].workers[w] # <<>>
  /\ LET path == Head(scans[s].workers[w])
     IN /\ scans' = [scans EXCEPT ![s].workers[w] = Tail(@)]
        /\ app' = OnSizeUpdate(app, SizeUpdate(s, path, get_directory_size(path, fs)))
  /\ UNCHANGED <<loop, scan_rx, fs, clean, events, hist, limits>>

\* scanner.rs 197-205: worker w sizes the next directory of its chunk
SizeWorker(s, w) ==
  /\ Running /\ w \in DOMAIN scans[s].workers
  /\ scans[s].workers[w] # <<>>
  /\ Len(scans[s].size_rx) < SizeChannelCapacity
  /\ LET path == Head(scans[s].workers[w])
     IN scans' = [scans EXCEPT ![s].workers[w] = Tail(@),
                               ![s].size_rx = Append(@, <<path, get_directory_size(path, fs)>>)]
  /\ UNCHANGED <<app, loop, scan_rx, fs, clean, events, hist, limits>>

WorkersDone(s) == \A w \in DOMAIN scans[s].workers : scans[s].workers[w] = <<>>

\* 155-158: one size is received and passed on; the loop has not reached
\* its break
ScanRelay(s) ==
  /\ Running /\ scans[s].pc = "relay"
  /\ scans[s].completed < scans[s].total
  /\ scans[s].size_rx # <<>>
  /\ Len(scan_rx) < ScanChannelCapacity
  /\ LET e == Head(scans[s].size_rx)
         completed == scans[s].completed + 1
     IN /\ scan_rx' = Append(scan_rx, SizeUpdate(s, e[1], e[2]))
        /\ scans' = [scans EXCEPT ![s].size_rx = Tail(@),
                                  ![s].completed = completed,
                                  ![s].pc = IF completed % 5 = 0 \/ completed >= scans[s].total
                                            THEN "relayScanned" ELSE "relay"]
  /\ UNCHANGED <<app, loop, fs, clean, events, hist, limits>>

\* 160-163: the progress message; the task then stands at the test of
\* line 165
ScanRelayScanned(s) ==
  /\ Running /\ scans[s].pc = "relayScanned"
  /\ Send(s, ItemsScanned(s, Len(scans[s].items)), "relay")

\* ScanRelayClosed that leaves the loop only by its break, once the expected
\* number of sizes has been received
ScanRelayUntilTotal(s) ==
  /\ Running /\ scans[s].pc = "relay"
  /\ scans[s].completed >= scans[s].total
  /\ scans' = [scans EXCEPT ![s].pc = "sendSizeDone"]
  /\ UNCHANGED <<app, loop, scan_rx, fs, clean, events, hist, limits>>

\* the loop ends: by the break of 165-167 once completed >= total, or at
\* 155, where recv() yields None once every worker has dropped its sender
\* and the size channel is empty
ScanRelayClosed(s) ==
  /\ Running /\ scans[s].pc = "relay"
  /\ \/ scans[s].completed >= scans[s].total
     \/ scans[s].size_rx = <<>> /\ WorkersDone(s)
  /\ scans' = [scans EXCEPT ![s].pc = "sendSizeDone"]
  /\ UNCHANGED <<app, loop, scan_rx, fs, clean, events, hist, limits>>

\* 169, 171
ScanSendSizeDone(s) ==
  /\ Running /\ scans[s].pc = "sendSizeDone"
  /\ Send(s, SizeCalculationComplete(s), "sendFinal")

\* 174-175
ScanSendFinal(s) ==
  /\ Running /\ scans[s].pc = "sendFinal"
  /\ Send(s, ScanComplete(s), "done")

(***************************************************************************)
(* The control loop of run_app (app.rs 40-109).                            *)
(***************************************************************************)
\* 41-43: try_recv finds an update
ProcessUpdate ==
  /\ loop = "recv" /\ scan_rx # <<>>
  /\ app' = process_scan_update(app, Head(scan_rx))
  /\ scan_rx' = Tail(scan_rx)
  /\ hist' = IF Head(scan_rx).type = "ItemsFound"
             THEN [hist EXCEPT !.found = @ \cup {Head(scan_rx).scan}] ELSE hist
  /\ loop' = "poll"
  /\ UNCHANGED <<scans, fs, clean, events, limits>>

\* 41: try_recv finds the channel empty
NoUpdate ==
  /\ loop = "recv" /\ scan_rx = <<>>
  /\ loop' = "poll"
  /\ UNCHANGED <<app, scan_rx, scans, fs, clean, events, hist, limits>>

\* 47: the poll times out, or the event is one the loop drops
NoEvent ==
  /\ loop = "poll"
  /\ loop' = "recv"
  /\ UNCHANGED <<app, scan_rx, scans, fs, clean, events, hist, limits>>

\* clean_selected_items without the filter on the selected flag
clean_all_items(items) ==
  [outer |-> "spawn", selected |-> items, total |-> Len(items),
   spawned |-> 0,
   units |-> [i \in 1..Len(items) |-> [pc |-> "idle", success |-> FALSE]],
   results |-> <<>>, rx |-> <<>>]

\* cleaner.rs 16-20: the selected items are cloned and the outer task spawned
clean_selected_items(items) ==
  LET selected == SelectSeq(items, IsSelected)
  IN [outer |-> "spawn", selected |-> selected, total |-> Len(selected),
      spawned |-> 0,
      units |-> [i \in 1..Len(selected) |-> [pc |-> "idle", success |-> FALSE]],
      results |-> <<>>, rx |-> <<>>]

\* app.rs 331-336
start_cleaning(a) ==
  [a EXCEPT !.state = "Cleaning", !.cleaning = TRUE, !.progress = <<0, 1>>,
            !.total_size = selected_size(a)]

\* 49-84: a key event
KeyEvent(k) ==
  /\ loop = "poll"
  /\ handle_key_event(app, k).app.help_scroll <= MaxHelpScroll
  /\ events' = IF IsRescan(app, k) \/ handle_key_event(app, k) # Stay(app)
               THEN events + 1 ELSE events
  /\ events' <= limits.events
  /\ IF IsRescan(app, k)
     THEN /\ nscans < limits.scans
          /\ app' = RescanReset(app)
          /\ scans' = Append(scans, ScanSpawned)
          /\ loop' = "recv"
          /\ UNCHANGED <<clean, hist>>
     ELSE LET r == handle_key_event(app, k)
          IN /\ IF ~r.continue
                THEN loop' = "exited" /\ UNCHANGED <<app, clean, hist>>
                ELSE IF r.clean
                THEN /\ app' = start_cleaning(r.app)
                     /\ clean' = clean_selected_items(r.app.items)
                     /\ hist' = [hist EXCEPT !.pre_items = r.app.items, !.pre_fs = fs,
                                             !.attempts = {}, !.deleted = {},
                                             !.log = [i \in 1..selected_count(r.app) |-> <<>>]]
                     /\ loop' = "cleaning"
                ELSE app' = r.app /\ loop' = "recv" /\ UNCHANGED <<clean, hist>>
             /\ UNCHANGED scans
  /\ UNCHANGED <<scan_rx, fs, limits>>

\* 86-102: a mouse event
MouseEvent(kind) ==
  /\ loop = "poll"
  /\ OnMouse(app, kind).help_scroll <= MaxHelpScroll
  /\ events' = IF OnMouse(app, kind) # app THEN events + 1 ELSE events
  /\ events' <= limits.events
  /\ app' = OnMouse(app, kind)
  /\ loop' = "recv"
  /\ UNCHANGED <<scan_rx, scans, fs, clean, hist, limits>>

(***************************************************************************)
(* The Cleaner (cleaner.rs 20-76).  Unit i is the unit of index i - 1.     *)
(***************************************************************************)
\* 28-68: the outer task spawns the next unit (and sleeps)
CleanSpawn ==
  /\ Running /\ clean.outer = "spawn" /\ clean.spawned < clean.total
  /\ clean' = [clean EXCEPT !.spawned = @ + 1, !.units[clean.spawned + 1].pc = "start"]
  /\ UNCHANGED <<app, loop, scan_rx, scans, fs, events, hist, limits>>

\* 36-38
UnitStart(i) ==
  /\ Running /\ i \in DOMAIN clean.units /\ clean.units[i].pc = "start"
  /\ Len(clean.rx) < ProgressChannelCapacity
  /\ LET path_str == display_path(clean.selected[i])
     IN /\ clean' = [clean EXCEPT !.units[i].pc = "delete",
                                  !.rx = Append(@, [done |-> i - 1, total |-> clean.total,
                                                    item |-> Some(path_str)])]
        /\ hist' = [hist EXCEPT !.log[i] = Append(@, <<"send", i - 1, clean.total, Some(path_str)>>)]
  /\ UNCHANGED <<app, loop, scan_rx, scans, fs, events, limits>>

\* what fs::remove_dir_all or fs::remove_file of path leaves when it succeeds
Removed(f, path) == {q \in f : q # path /\ ~IsUnder(q, path)}

\* 40-50: the delete call; it fails on a path that is gone, and may fail on
\* one that exists (permission denied), which then stays
UnitDelete(i) ==
  /\ Running /\ i \in DOMAIN clean.units /\ clean.units[i].pc = "delete"
  /\ LET path == clean.selected[i].path
     IN \E success \in (IF path \in fs THEN BOOLEAN ELSE {FALSE}) :
          /\ fs' = IF success THEN Removed(fs, path) ELSE fs
          /\ clean' = [clean EXCEPT !.units[i] = [pc |-> "record", success |-> success]]
          /\ hist' = [hist EXCEPT !.attempts = @ \cup {path},
                                  !.deleted = IF success THEN @ \cup {path} ELSE @,
                                  !.log[i] = Append(@, <<"delete">>)]
  /\ UNCHANGED <<app, loop, scan_rx, scans, events, limits>>

\* CleanResult with the item's size whatever the outcome
CleanResultKeepsSize(item, success) ==
  [path |-> display_path(item), success |-> success, size |-> item.size]

\* 52-56
CleanResult(item, success) ==
  [path |-> display_path(item), success |-> success,
   size |-> IF success THEN item.size ELSE 0]

\* UnitRecord of a unit that stops at a failed deletion
UnitRecordUnlessFailed(i) ==
  /\ Running /\ i \in DOMAIN clean.units /\ clean.units[i].pc = "record"
  /\ clean.units[i].success
  /\ clean' = [clean EXCEPT !.units[i].pc = "announce",
                            !.results = Append(@, [path |-> display_path(clean.selected[i]),
                                                   success |-> TRUE,
                                                   size |-> clean.selected[i].size])]
  /\ UNCHANGED <<app, loop, scan_rx, scans, fs, events, hist, limits>>

\* 58-61
UnitRecord(i) ==
  /\ Running /\ i \in DOMAIN clean.units /\ clean.units[i].pc = "record"
  /\ clean' = [clean EXCEPT !.units[i].pc = "announce",
                            !.results = Append(@, CleanResult(clean.selected[i], clean.units[i].success))]
  /\ hist' = [hist EXCEPT !.log[i] = Append(@, <<"record">>)]
  /\ UNCHANGED <<app, loop, scan_rx, scans, fs, events, limits>>

\* UnitAnnounce of a unit that sends its completion message as soon as the
\* deletion is over and records the result afterwards
UnitAnnounceBeforeRecord(i) ==
  /\ Running /\ i \in DOMAIN clean.units
  /\ \/ /\ clean.units[i].pc \in {"record", "announce"}
        /\ Len(clean.rx) < ProgressChannelCapacity
        /\ clean' = [clean EXCEPT !.units[i].pc = IF @ = "record" THEN "announced" ELSE "finished",
                                  !.rx = Append(@, [done |-> i, total |-> clean.total, item |-> None])]
        /\ hist' = [hist EXCEPT !.log[i] = Append(@, <<"send", i, clean.total, None>>)]
     \/ /\ clean.units[i].pc = "announced"
        /\ clean' = [clean EXCEPT !.units[i].pc = "finished",
                                  !.results = Append(@, CleanResult(clean.selected[i], clean.units[i].success))]
        /\ hist' = [hist EXCEPT !.log[i] = Append(@, <<"record">>)]
  /\ UNCHANGED <<app, loop, scan_rx, scans, fs, events, limits>>

\* 63
UnitAnnounce(i) ==
  /\ Running /\ i \in DOMAIN clean.units /\ clean.units[i].pc = "announce"
  /\ Len(clean.rx) < ProgressChannelCapacity
  /\ clean' = [clean EXCEPT !.units[i].pc = "finished",
                            !.rx = Append(@, [done |-> i, total |-> clean.total, item |-> None])]
  /\ hist' = [hist EXCEPT !.log[i] = Append(@, <<"send", i, clean.total, None>>)]
  /\ UNCHANGED <<app, loop, scan_rx, scans, fs, events, limits>>

UnitsFinished == \A i \in DOMAIN clean.units : clean.units[i].pc = "finished"

\* CleanJoin that returns once every unit is spawned, awaiting none
CleanJoinUnawaited ==
  /\ Running /\ clean.outer = "spawn" /\ clean.spawned = clean.total
  /\ clean' = [clean EXCEPT !.outer = "done"]
  /\ UNCHANGED <<app, loop, scan_rx, scans, fs, events, hist, limits>>

\* 71-75: every handle is awaited, the results are returned and the outer
\* task's sender is dropped
CleanJoin ==
  /\ Running /\ clean.outer = "spawn" /\ clean.spawned = clean.total
  /\ UnitsFinished
  /\ clean' = [clean EXCEPT !.outer = "done"]
  /\ UNCHANGED <<app, loop, scan_rx, scans, fs, events, hist, limits>>

\* CleanProgress that keeps the item shown when the message names none
CleanProgressKeepsItem ==
  /\ loop = "cleaning" /\ clean.rx # <<>>
  /\ LET m == Head(clean.rx)
     IN app' = [app EXCEPT !.progress = <<m.done, m.total>>,
                           !.processing_item = IF m.item = None THEN @ ELSE m.item]
  /\ clean' = [clean EXCEPT !.rx = Tail(@)]
  /\ UNCHANGED <<loop, scan_rx, scans, fs, events, hist, limits>>

\* app.rs 342-345: start_cleaning receives a progress message
CleanProgress ==
  /\ loop = "cleaning" /\ clean.rx # <<>>
  /\ LET m == Head(clean.rx)
     IN app' = [app EXCEPT !.progress = <<m.done, m.total>>, !.processing_item = m.item]
  /\ clean' = [clean EXCEPT !.rx = Tail(@)]
  /\ UNCHANGED <<loop, scan_rx, scans, fs, events, hist, limits>>

\* app.rs 351-355
Reconcile(items, results) ==
  SelectSeq(items, LAMBDA item :
    ~\E j \in DOMAIN results : results[j].path = display_path(item) /\ results[j].success)

\* app.rs 347-358, entered once the progress channel is closed and drained
finish_cleaning(a, results) ==
  [a EXCEPT !.cleaned_size = SeqSum(Sizes(results)),
            !.items = Reconcile(a.items, results),
            !.state = "Complete",
            !.cleaning = FALSE]

CleanFinish ==
  /\ loop = "cleaning" /\ clean.rx = <<>> /\ clean.outer = "done"
  /\ app' = finish_cleaning(app, clean.results)
  /\ clean' = CleanIdle
  /\ loop' = "recv"
  /\ UNCHANGED <<scan_rx, scans, fs, events, hist, limits>>

(***************************************************************************)
(* The specification.                                                      *)
(***************************************************************************)
\* initialize_app, then run_app 17-32: the first scan is spawned
Start(trees, max_scans, max_events) ==
  /\ app = AppDefault
  /\ loop = "recv"
  /\ scan_rx = <<>>
  /\ scans = <<ScanSpawned>>
  /\ fs \in trees
  /\ clean = CleanIdle
  /\ events = 0
  /\ hist = HistInit
  /\ limits = [scans |-> max_scans, events |-> max_events, threads |-> ThreadCount]

Init == Start(Trees, MaxScans, MaxEvents)
InitRescan == Start(SmallTrees, RescanScans, RescanEvents)
InitRepeat == Start(SmallTrees, RepeatScans, RepeatEvents)

ScanStep(s) ==
  \/ ScanWalk(s)
  \/ ScanSendFound(s)
  \/ ScanSendScanned(s)
  \/ ScanSendComplete(s)
  \/ ScanCount(s)
  \/ ScanCalculate(s)
  \/ ScanRelay(s)
  \/ ScanRelayScanned(s)
  \/ ScanRelayClosed(s)
  \/ ScanSendSizeDone(s)
  \/ ScanSendFinal(s)

CleanerStep ==
  \/ CleanSpawn
  \/ CleanJoin
  \/ \E i \in DOMAIN clean.units :
       UnitStart(i) \/ UnitDelete(i) \/ UnitRecord(i) \/ UnitAnnounce(i)

Next ==
  \/ ProcessUpdate
  \/ NoUpdate
  \/ NoEvent
  \/ \E k \in Keys : KeyEvent(k)
  \/ \E kind \in {"ScrollDown", "ScrollUp"} : MouseEvent(kind)
  \/ \E s \in DOMAIN scans : ScanStep(s)
  \/ \E s \in DOMAIN scans : \E w \in DOMAIN scans[s].workers : SizeWorker(s, w)
  \/ CleanerStep
  \/ CleanProgress
  \/ CleanFinish

Spec == Init /\ [][Next]_vars
SpecRescan == InitRescan /\ [][Next]_vars
SpecRepeat == InitRepeat /\ [][Next]_vars

(***************************************************************************)
(* Properties of a scan.                                                   *)
(***************************************************************************)
\* the ItemsFound update of scan s has been applied to the session
FoundApplied(s) == s \in hist.found

\* scan s has a size update that is not applied: one in the scan channel,
\* one in its size channel or held by a worker, or one it has yet to produce
SizesOutstanding(s) ==
  \/ \E i \in DOMAIN scan_rx : scan_rx[i].type = "SizeUpdate" /\ scan_rx[i].scan = s
  \/ scans[s].pc = "walk"
  \/ /\ scans[s].pc \in {"sendFound", "sendScanned", "sendComplete", "count", "calc"}
     /\ NeedsSizing(scans[s].items, fs) # <<>>
  \/ /\ scans[s].pc \in {"relay", "relayScanned"}
     /\ scans[s].completed < scans[s].total

\* the latest scan is resolved: its items and all its sizes are applied
ScanResolved == FoundApplied(nscans) /\ ~SizesOutstanding(nscans)

\* C1: the session never moves from Scanning to Selecting before the
\* ItemsFound update of the current (latest) scan has been applied and every
\* size update that scan emits has been applied, also when a rescan was
\* started while updates of an earlier scan were undelivered.
C1_SelectingOnlyAfterScanResolved ==
  [][(app.state = "Scanning" /\ app'.state = "Selecting") => ScanResolved']_vars

\* C2: completed_size_jobs never exceeds total_size_jobs, in every reachable
\* state, repeated rescans included.
C2_CompletedWithinTotal == app.completed_size_jobs <= app.total_size_jobs

(***************************************************************************)
(* Properties of a clean.  hist.pre_items and hist.pre_fs are the item     *)
(* list and the tree when the clean was launched, hist.attempts the paths  *)
(* passed to a delete call and hist.deleted those whose call returned Ok.  *)
(***************************************************************************)
DeletionSucceeded(item) == item.selected /\ item.path \in hist.deleted

Survives(item) == ~DeletionSucceeded(item)

SelectedPaths(items) == {items[i].path : i \in {j \in DOMAIN items : items[j].selected}}

\* C3: when the clean has finished the state is Complete and the item list
\* is the pre-clean list without the items whose deletion succeeded; the
\* unselected items and those whose deletion failed are kept, in order and
\* with their fields unchanged.
C3_ListIsPreCleanMinusDeleted ==
  app.state = "Complete" => app.items = SelectSeq(hist.pre_items, Survives)

\* C4: after a clean cleaned_size is the sum of the pre-clean sizes of the
\* selected items whose deletion succeeded; a failed deletion contributes 0,
\* its CleanResult carrying size 0.
C4_CleanedSizeIsSumOfDeleted ==
  /\ \A j \in DOMAIN clean.results :
       ~clean.results[j].success => clean.results[j].size = 0
  /\ app.state = "Complete" =>
       app.cleaned_size = SeqSum(Sizes(SelectSeq(hist.pre_items, DeletionSucceeded)))

C4_Witness ==
  /\ app.state = "Complete"
  /\ app.cleaned_size > 0
  /\ SelectedPaths(hist.pre_items) \ hist.deleted # {}

\* C5: cleaned_size is never more than the bytes the clean removed from the
\* tree, also when the selected items include nested directories.
C5_CleanedSizeWithinRemoved ==
  app.state = "Complete" => app.cleaned_size <= SumBytes(hist.pre_fs) - SumBytes(fs)

\* the results that carry the display path d
ResultsFor(d) == {j \in DOMAIN clean.results : clean.results[j].path = d}

\* the units (selected items of the clean) whose display path is d
UnitsFor(d) == {i \in DOMAIN clean.selected : display_path(clean.selected[i]) = d}

\* the units that have recorded their result
Recorded == {i \in DOMAIN clean.units : clean.units[i].pc \in {"announce", "finished"}}

\* C6: a deletion is attempted only for items selected when the clean was
\* launched, so the path of an unselected item is never passed to a delete
\* call; and the clean yields exactly one CleanResult per selected item, so
\* the number of results is the Cleaner's total.
C6_OnlySelectedAttemptedOneResultEach ==
  /\ hist.attempts \subseteq SelectedPaths(hist.pre_items)
  /\ \A i \in DOMAIN hist.pre_items :
       ~hist.pre_items[i].selected => hist.pre_items[i].path \notin hist.attempts
  /\ loop = "cleaning" =>
       /\ clean.selected = SelectSeq(hist.pre_items, IsSelected)
       /\ clean.total = Len(SelectSeq(hist.pre_items, IsSelected))
       /\ Len(clean.results) = Cardinality(Recorded)
  /\ clean.outer = "done" =>
       /\ Len(clean.results) = clean.total
       /\ hist.attempts = SelectedPaths(hist.pre_items)
       /\ \A i \in DOMAIN clean.selected :
            LET d == display_path(clean.selected[i])
            IN Cardinality(ResultsFor(d)) = Cardinality(UnitsFor(d))

C6_Witness ==
  /\ clean.outer = "done"
  /\ clean.total >= 1
  /\ Len(SelectSeq(hist.pre_items, IsSelected)) < Len(hist.pre_items)

\* C7: a deletion that fails is recorded as a result with success false and
\* size 0; it stops nothing: while a clean is under way some step of it can
\* always be taken, every selected item has been attempted when the units
\* are joined, and the clean ends in state Complete.
C7_FailureRecordedAndCleanGoesOn ==
  /\ \A i \in Recorded :
       ~clean.units[i].success =>
         \E j \in ResultsFor(display_path(clean.selected[i])) :
           ~clean.results[j].success /\ clean.results[j].size = 0
  /\ loop = "cleaning" =>
       /\ app.state = "Cleaning"
       /\ ENABLED (CleanerStep \/ CleanProgress \/ CleanFinish)
       /\ (clean.rx = <<>> /\ clean.outer = "done") =>
            ENABLED (CleanFinish /\ app'.state = "Complete")
  /\ clean.outer = "done" => SelectedPaths(hist.pre_items) \subseteq hist.attempts

C7_Witness ==
  /\ clean.outer = "done"
  /\ \E i, j \in DOMAIN clean.units :
       ~clean.units[i].success /\ clean.units[j].success

\* C8: the clean resolves to Complete only after every deletion unit has
\* recorded its result and finished: at that step every unit is spawned and
\* finished, there is one result per unit, and no progress message is
\* undelivered.
C8_CompleteOnlyAfterUnitsFinished ==
  [][(app.state = "Cleaning" /\ app'.state = "Complete") =>
       /\ clean.spawned = clean.total
       /\ UnitsFinished
       /\ Len(clean.results) = clean.total
       /\ clean.rx = <<>>
       /\ clean'.rx = <<>>]_vars

C8_Witness ==
  /\ app.state = "Complete"
  /\ Cardinality(hist.attempts) >= 2
  /\ app.progress = <<2, 2>>

\* C9: a rescan, accepted in Selecting only, leaves the state Scanning, the
\* item list empty, no cursor, and total_size, cleaned_size, scanned_items,
\* total_size_jobs, completed_size_jobs and progress all zero, before any
\* update of the new scan is applied.
C9_RescanResetsSession ==
  [][Len(scans') # Len(scans) =>
       /\ app.state = "Selecting" /\ ~app.cleaning
       /\ Len(scans') = Len(scans) + 1
       /\ scans'[Len(scans')].pc = "walk"
       /\ app'.state = "Scanning"
       /\ app'.items = <<>>
       /\ app'.list_state = None
       /\ app'.total_size = 0
       /\ app'.cleaned_size = 0
       /\ app'.scanned_items = 0
       /\ app'.total_size_jobs = 0
       /\ app'.completed_size_jobs = 0
       /\ app'.progress[1] = 0]_vars

C9_Witness ==
  /\ nscans = 2
  /\ scans[2].pc = "walk"
  /\ app.state = "Scanning"
  /\ app.cleaned_size = 0
  /\ hist.deleted # {}
  /\ hist.pre_items # <<>>

\* a clean may be launched from the session a
CleanAccepted(a) == a.state = "Selecting" /\ selected_count(a) > 0 /\ ~a.cleaning

\* C10 as stated: StartClean moves the session to Cleaning only in Selecting
\* with at least one item selected and no clean in flight; otherwise it
\* leaves the state and the item list unchanged and launches no deletion.
C10_StartCleanOtherwiseNoChange ==
  [][KeyEvent("c") =>
       IF CleanAccepted(app)
       THEN clean = CleanIdle /\ app'.state = "Cleaning"
       ELSE app'.state = app.state /\ app'.items = app.items /\ clean' = clean]_vars

\* C10 amended: StartClean moves the session to Cleaning, launching a clean
\* of the selected items, only in Selecting with at least one item selected
\* and no clean in flight; otherwise it launches no deletion and leaves the
\* item list unchanged, and leaves the state unchanged except in Complete,
\* where it returns the session to Selecting as any other key does.  A
\* clean is launched only when none is in flight.
C10_StartCleanAmended ==
  [][KeyEvent("c") =>
       IF CleanAccepted(app)
       THEN /\ clean = CleanIdle
            /\ app'.state = "Cleaning"
            /\ clean'.outer = "spawn"
            /\ clean'.total = selected_count(app)
       ELSE /\ app'.state = IF app.state = "Complete" THEN "Selecting" ELSE app.state
            /\ app'.items = app.items
            /\ clean' = clean]_vars

C10_Witness ==
  /\ app.state = "Cleaning"
  /\ clean.outer = "spawn"
  /\ clean.spawned = 0
  /\ clean.total >= 1

(***************************************************************************)
(* Properties of the session state machine.                                *)
(***************************************************************************)
\* C11: Help can be entered from every other state, and whenever the session
\* leaves Help the state it enters is the state that was active when Help
\* was entered (the one recorded in previous_state), also when scan updates
\* are applied while Help is shown.
C11_HelpReturnsToEntryState ==
  [][(app.state = "Help" /\ app'.state # "Help") =>
       (app.previous_state # None /\ app'.state = app.previous_state[1])]_vars

\* the Quit action: the keys q and Esc
QuitKeys == {"q", "esc"}

\* C12: a Quit action terminates the control loop from every state:
\* Scanning, Selecting, Cleaning, Complete and Help.
C12_QuitTerminatesLoop ==
  [][\A k \in QuitKeys : KeyEvent(k) => loop' = "exited"]_vars

\* one step of the control loop of run_app: a receive attempt or an input poll
LoopStep ==
  \/ ProcessUpdate
  \/ NoUpdate
  \/ NoEvent
  \/ \E k \in Keys : KeyEvent(k)
  \/ \E kind \in {"ScrollDown", "ScrollUp"} : MouseEvent(kind)

\* C13: while a clean is in flight (state Cleaning) the control loop keeps
\* iterating: it can take its next step, polling and handling input, without
\* waiting for the Cleaner to finish.
C13_LoopIteratesWhileCleaning == app.state = "Cleaning" => ENABLED LoopStep

\* a progress message that announces the completion of a unit (cleaner.rs 63)
IsCompletion(m) == m.item = None

\* the units that have announced completion, and how many of these
\* announcements the session has received
Announced == {i \in DOMAIN clean.units : clean.units[i].pc = "finished"}

CompletionsApplied == Cardinality(Announced) - Len(SelectSeq(clean.rx, IsCompletion))

\* C14: while a clean is in flight, after each progress message is applied
\* the progress value is (units that have announced completion) / total; so
\* it never decreases, and it is total/total = 1 when the clean completes,
\* whatever the order in which the units complete.
C14_ProgressIsCompletedOverTotal ==
  [][/\ CleanProgress =>
          /\ app'.progress = <<CompletionsApplied', clean.total>>
          /\ app'.progress[1] * app.progress[2] >= app.progress[1] * app'.progress[2]
     /\ CleanFinish => app.progress = <<clean.total, clean.total>>]_vars

\* the sizes of the items never increase along the list
SortedDescending(items) ==
  \A i, j \in DOMAIN items : i < j => items[i].size >= items[j].size

\* C15: on every step from Scanning into Selecting, whichever update
\* triggers it (SizeCalculationComplete or ScanComplete), the items are
\* sorted by size in descending order, total_size is the sum of the sizes of
\* all items, and the cursor is on index 0 when the list is non-empty.
C15_SelectingEnteredSortedAndTotalled ==
  [][(app.state = "Scanning" /\ app'.state = "Selecting") =>
       /\ ProcessUpdate
       /\ Head(scan_rx).type \in {"SizeCalculationComplete", "ScanComplete"}
       /\ SortedDescending(app'.items)
       /\ app'.total_size = SeqSum(Sizes(app'.items))
       /\ app'.items # <<>> => app'.list_state = Some(0)]_vars

C15_Witness ==
  /\ app.state = "Selecting"
  /\ events = 0
  /\ Len(app.items) = 2
  /\ app.items[1].size > app.items[2].size
  /\ scans[1].items[1].path = app.items[2].path
  /\ app.total_size = app.items[1].size + app.items[2].size

\* C16: in state Complete every key other than quit and help moves the
\* session to Selecting and puts the cursor on the first remaining item when
\* the list is non-empty; the item list and cleaned_size are unchanged by
\* that key.
C16_CompleteKeyReturnsToSelecting ==
  [][\A k \in Keys \ (QuitKeys \cup {"h"}) :
       (app.state = "Complete" /\ KeyEvent(k)) =>
         /\ app'.state = "Selecting"
         /\ loop' = "recv"
         /\ app'.list_state = IF app.items # <<>> THEN Some(0) ELSE app.list_state
         /\ app'.items = app.items
         /\ app'.cleaned_size = app.cleaned_size
         /\ UNCHANGED <<clean, fs, scans>>]_vars

C16_Witness ==
  /\ app.state = "Selecting"
  /\ loop = "recv"
  /\ app.cleaned_size > 0
  /\ hist.deleted # {}
  /\ app.items # <<>>
  /\ app.list_state = Some(0)
  /\ hist.pre_items[1].path # app.items[1].path

(***************************************************************************)
(* Progress.  The control loop, every scan_background task, the Size       *)
(* Resolver workers and the Cleaner's tasks are tasks of the tokio runtime *)
(* (#[tokio::main]), which runs every task that is ready: each of them is  *)
(* weakly fair.  The user is not: no key is ever required to arrive.       *)
(***************************************************************************)
InitLive == Start(SmallTrees, LiveScans, LiveEvents)

\* the input poll of the loop returns, with an event or without one
PollStep ==
  \/ NoEvent
  \/ \E k \in Keys : KeyEvent(k)
  \/ \E kind \in {"ScrollDown", "ScrollUp"} : MouseEvent(kind)

Fairness ==
  /\ WF_vars(ProcessUpdate \/ NoUpdate)
  /\ WF_vars(PollStep)
  /\ \A s \in 1..LiveScans : WF_vars(s \in DOMAIN scans /\ ScanStep(s))
  /\ WF_vars(\E s \in DOMAIN scans : \E w \in DOMAIN scans[s].workers : SizeWorker(s, w))
  /\ WF_vars(CleanerStep)
  /\ WF_vars(CleanProgress \/ CleanFinish)

SpecLive == InitLive /\ [][Next]_vars /\ Fairness

\* C17: under fair scheduling and without a Quit, every started scan
\* eventually brings the session to Selecting: when some directory needs
\* sizing, when the matched items are all files, and when nothing is found.
C17_ScanLeadsToSelecting ==
  (app.state = "Scanning") ~> (app.state = "Selecting" \/ loop = "exited")

C17_Witness ==
  /\ app.state = "Selecting"
  /\ events = 0
  /\ scans[1].total > 0
  /\ scans[1].pc = "done"
  /\ scan_rx = <<>>

(***************************************************************************)
(* The Size Resolver by itself: calculate_directory_sizes is called on an  *)
(* item list of any mix of directories and files, sized or not, with any   *)
(* worker count from 2, and its workers run; nothing receives.             *)
(***************************************************************************)
ItemKinds == {"dir", "sized dir", "empty file", "file"}

\* the item at position i of a list, of the given kind
SizeItem(i, kind) ==
  CASE kind = "dir" -> CleanableItem(<<100 + i>>, Tree[<<100 + i>>].item_type, 0)
    [] kind = "sized dir" -> CleanableItem(<<100 + i>>, Tree[<<100 + i>>].item_type, 5)
    [] kind = "empty file" -> CleanableItem(<<48 + i>>, Tree[<<48 + i>>].item_type, 0)
    [] kind = "file" -> CleanableItem(<<48 + i>>, Tree[<<48 + i>>].item_type, 3)

ItemLists ==
  UNION {{[i \in 1..n |-> SizeItem(i, kinds[i])] : kinds \in [1..n -> ItemKinds]} :
           n \in 0..MaxItems}

InitSizes ==
  /\ app = AppDefault
  /\ loop = "recv"
  /\ scan_rx = <<>>
  /\ fs = SizeDirs \cup SizeFiles
  /\ \E items \in ItemLists :
       scans = <<[ScanSpawned EXCEPT !.pc = "calc", !.items = items,
                                     !.total = Len(NeedsSizing(items, fs))]>>
  /\ clean = CleanIdle
  /\ events = 0
  /\ hist = HistInit
  /\ \E n \in 2..MaxThreads : limits = [scans |-> 1, events |-> 0, threads |-> n]

NextSizes ==
  \/ ScanCalculate(1)
  \/ \E w \in DOMAIN scans[1].workers : SizeWorker(1, w)

SpecSizes == InitSizes /\ [][NextSizes]_vars

RECURSIVE Flatten(_)
Flatten(ss) == IF ss = <<>> THEN <<>> ELSE Head(ss) \o Flatten(Tail(ss))

\* the paths of the items to size, in list order
DirPaths(items, f) == [i \in DOMAIN NeedsSizing(items, f) |-> NeedsSizing(items, f)[i].path]

Range(seq) == {seq[i] : i \in DOMAIN seq}

\* the paths emitted so far, in the order of emission
Emitted(s) == [i \in DOMAIN scans[s].size_rx |-> scans[s].size_rx[i][1]]

\* C18: for M items that are directories with size 0 and any worker count
\* N >= 2, calculate_directory_sizes emits exactly M (path, size) messages,
\* one per such directory and each path once; it emits nothing for a file or
\* for an item whose size is non-zero; the index ranges handed to the
\* workers are disjoint and cover 0..M.
C18_OneEmissionPerDirectory ==
  LET dirs == DirPaths(scans[1].items, fs)
      chunks == scans[1].workers
      pending == Flatten(chunks)
      emitted == Emitted(1)
  IN scans[1].pc = "relay" =>
       /\ Len(chunks) <= limits.threads
       /\ emitted = <<>> =>
            /\ pending = dirs
            /\ \A w \in DOMAIN chunks : chunks[w] # <<>>
       /\ Len(emitted) + Len(pending) = Len(dirs)
       /\ Range(emitted) \cup Range(pending) = Range(dirs)
       /\ Cardinality(Range(emitted)) = Len(emitted)
       /\ \A i \in DOMAIN emitted :
            scans[1].size_rx[i][2] = get_directory_size(emitted[i], fs)
       /\ WorkersDone(1) => Len(emitted) = Len(dirs)

C18_Witness ==
  /\ scans[1].pc = "relay"
  /\ WorkersDone(1)
  /\ limits.threads = 2
  /\ Len(scans[1].workers) = 2
  /\ Len(scans[1].size_rx) = 3
  /\ Len(scans[1].items) = 4
  /\ Emitted(1) # DirPaths(scans[1].items, fs)

\* the size an item of path p has on the filesystem f: the length of a file,
\* the total of the files beneath a directory
ResolvedSize(p, f) ==
  IF Tree[p].kind = "dir" THEN get_directory_size(p, f) ELSE Tree[p].bytes

\* the sizes delivered for path p by the updates held in pending_sizes
Delivered(a, p) == {e[2] : e \in {d \in a.pending_sizes : d[1] = p}}

\* C19: whatever the order in which a scan's size updates arrive, each is
\* applied to the item of the equal path, never by list position: when the
\* SizeCalculationComplete of the current scan is applied every item for
\* whose path a size was delivered carries that size and every other item
\* the size it was found with, and as long as nothing was deleted each item
\* carries the size resolved for its own path, which does not depend on the
\* arrival order.
C19_SizesAppliedByPath ==
  [][(/\ ProcessUpdate
      /\ Head(scan_rx).type = "SizeCalculationComplete"
      /\ Head(scan_rx).scan = nscans
      /\ FoundApplied(nscans)) =>
       \A i \in DOMAIN app'.items :
         LET item == app'.items[i]
         IN /\ IF Delivered(app', item.path) # {}
               THEN item.size \in Delivered(app', item.path)
               ELSE item.size = ItemOf(item.path).size
            /\ hist.pre_items = <<>> => item.size = ResolvedSize(item.path, fs)]_vars

C19_Witness ==
  /\ app.state = "Scanning"
  /\ Len(app.items) = 2
  /\ app.completed_size_jobs = 1
  /\ is_dir(app.items[1].path, fs) /\ app.items[1].size = 0
  /\ is_dir(app.items[2].path, fs)
  /\ app.items[2].size = get_directory_size(app.items[2].path, fs)
  /\ app.items[2].size > 0

\* C20: total_size_jobs of a scan is the number of items selected for size
\* resolution (the directories of size 0), so that completed_size_jobs
\* equals total_size_jobs when the size resolution of the scan completes,
\* for every mix of matched files and directories.
C20_TotalJobsIsDirectoryCount ==
  [][ProcessUpdate =>
       /\ Head(scan_rx).type = "ItemsFound" =>
            app'.total_size_jobs = Len(NeedsSizing(app'.items, fs))
       /\ (/\ Head(scan_rx).type = "SizeCalculationComplete"
           /\ Head(scan_rx).scan = nscans
           /\ FoundApplied(nscans)) =>
            app'.completed_size_jobs = app'.total_size_jobs]_vars

(***************************************************************************)
(* The Walker (scanner.rs 12-172, 223-285) on paths and names given byte   *)
(* by byte.                                                                *)
(***************************************************************************)
\* str::starts_with, str::ends_with, str::contains
StartsWith(s, prefix) ==
  Len(prefix) <= Len(s) /\ SubSeq(s, 1, Len(prefix)) = prefix

EndsWith(s, suffix) ==
  Len(suffix) <= Len(s) /\ SubSeq(s, Len(s) - Len(suffix) + 1, Len(s)) = suffix

Contains(s, sub) ==
  \E i \in 0..(Len(s) - Len(sub)) : SubSeq(s, i + 1, i + Len(sub)) = sub

HasByte(s, c) == \E i \in DOMAIN s : s[i] = c

\* str::trim_end_matches('/')
RECURSIVE TrimEndSlashes(_)
TrimEndSlashes(s) ==
  IF s # <<>> /\ s[Len(s)] = 47 THEN TrimEndSlashes(SubSeq(s, 1, Len(s) - 1)) ELSE s

\* str::trim: the white space at both ends is dropped (32 is the space)
RECURSIVE Trim(_)
Trim(s) ==
  IF s # <<>> /\ Head(s) = 32 THEN Trim(Tail(s))
  ELSE IF s # <<>> /\ s[Len(s)] = 32 THEN Trim(SubSeq(s, 1, Len(s) - 1))
  ELSE s

\* Path::join
Join(dir, name) == dir \o <<47>> \o name

\* Path::file_name and DirEntry::file_name: the last component; none for
\* the empty path
FileName(path) ==
  IF \E i \in DOMAIN path : path[i] = 47
  THEN LET i == CHOOSE k \in DOMAIN path :
                  path[k] = 47 /\ \A j \in (k + 1)..Len(path) : path[j] # 47
       IN SubSeq(path, i + 1, Len(path))
  ELSE path

\* Path::strip_prefix(dir).unwrap_or(path): the path relative to dir, which
\* is empty for dir itself
StripPrefix(path, dir) ==
  IF path = dir THEN <<>>
  ELSE IF IsUnder(path, dir) THEN SubSeq(path, Len(dir) + 2, Len(path))
  ELSE path

\* the depth of an entry beneath dir: 0 for dir itself, 1 for its entries
Depth(path, dir) ==
  IF path = dir THEN 0
  ELSE Cardinality({i \in (Len(dir) + 1)..Len(path) : path[i] = 47})

\* glob::Pattern::matches with the default MatchOptions, for patterns of
\* literal bytes, '?' (63) and single '*' (42): '*' stands for any sequence
\* of bytes, separators and a leading dot included
RECURSIVE GlobMatches(_, _)
GlobMatches(pattern, name) ==
  IF pattern = <<>> THEN name = <<>>
  ELSE IF Head(pattern) = 42
       THEN \E k \in 0..Len(name) :
              GlobMatches(Tail(pattern), SubSeq(name, k + 1, Len(name)))
       ELSE /\ name # <<>>
            /\ Head(pattern) = 63 \/ Head(pattern) = Head(name)
            /\ GlobMatches(Tail(pattern), Tail(name))

\* scanner.rs 223-229; Pattern::new accepts every pattern of this kind
match_glob_pattern(pattern, name) == GlobMatches(pattern, name)

\* scanner.rs 48-52
pattern_matches(pattern, name) ==
  IF HasByte(pattern, 42) THEN match_glob_pattern(pattern, name) ELSE name = pattern

\* scanner.rs 231-245
matches_gitignore_pattern(pattern, path) ==
  IF EndsWith(pattern, <<47>>)
  THEN LET trimmed == TrimEndSlashes(pattern)
       IN path = trimmed \/ StartsWith(path, trimmed \o <<47>>)
  ELSE IF HasByte(pattern, 42)
  THEN LET base_name == FileName(path)
       IN match_glob_pattern(pattern, base_name) \/ match_glob_pattern(pattern, path)
  ELSE \/ path = pattern
       \/ Contains(path, pattern)
       \/ EndsWith(path, <<47>> \o pattern)

\* scanner.rs 247-261, on the lines of the file: each is trimmed, and the
\* empty ones, the comments (35 is '#') and the negations (33 is '!') are
\* dropped
read_gitignore(lines) ==
  SelectSeq([i \in DOMAIN lines |-> Trim(lines[i])],
            LAMBDA t : t # <<>> /\ Head(t) # 35 /\ Head(t) # 33)

\* constants.rs 6-77: the catalog, a HashMap from pattern to description
CLEANABLE_PATTERNS ==
    \* 10: node_modules
  { <<<<110, 111, 100, 101, 95, 109, 111, 100, 117, 108, 101, 115>>, "Node.js dependencies">>,
    \* 11: pnpm-lock.yaml
    <<<<112, 110, 112, 109, 45, 108, 111, 99, 107, 46, 121, 97, 109, 108>>, "pnpm lock file">>,
    \* 12: .yarn
    <<<<46, 121, 97, 114, 110>>, "Yarn cache directory">>,
    \* 13: .parcel-cache
    <<<<46, 112, 97, 114, 99, 101, 108, 45, 99, 97, 99, 104, 101>>, "Parcel bundler cache">>,
    \* 14: .next
    <<<<46, 110, 101, 120, 116>>, "Next.js build artifacts">>,
    \* 15: .turbo
    <<<<46, 116, 117, 114, 98, 111>>, "Turborepo build artifacts">>,
    \* 16: .svelte-kit
    <<<<46, 115, 118, 101, 108, 116, 101, 45, 107, 105, 116>>, "SvelteKit build artifacts">>,
    \* 17: .vite
    <<<<46, 118, 105, 116, 101>>, "Vite cache directory">>,
    \* 18: dist
    <<<<100, 105, 115, 116>>, "Distribution files">>,
    \* 19: coverage
    <<<<99, 111, 118, 101, 114, 97, 103, 101>>, "Test coverage reports">>,
    \* 20: node_modules/.cache
    <<<<110, 111, 100, 101, 95, 109, 111, 100, 117, 108, 101, 115, 47, 46, 99, 97, 99, 104, 101>>, "npm/yarn/pnpm internal cache">>,
    \* 23: target
    <<<<116, 97, 114, 103, 101, 116>>, "Rust build artifacts">>,
    \* 24: debug
    <<<<100, 101, 98, 117, 103>>, "Rust debug output">>,
    \* 25: release
    <<<<114, 101, 108, 101, 97, 115, 101>>, "Rust release output">>,
    \* 26: deps
    <<<<100, 101, 112, 115>>, "Rust/Elixir dependencies">>,
    \* 29: __pycache__
    <<<<95, 95, 112, 121, 99, 97, 99, 104, 101, 95, 95>>, "Python bytecode cache">>,
    \* 30: .pytest_cache
    <<<<46, 112, 121, 116, 101, 115, 116, 95, 99, 97, 99, 104, 101>>, "Pytest cache">>,
    \* 31: .mypy_cache
    <<<<46, 109, 121, 112, 121, 95, 99, 97, 99, 104, 101>>, "MyPy static analysis cache">>,
    \* 32: .ruff_cache
    <<<<46, 114, 117, 102, 102, 95, 99, 97, 99, 104, 101>>, "Ruff linter cache">>,
    \* 33: venv
    <<<<118, 101, 110, 118>>, "Python virtual environment">>,
    \* 34: .venv
    <<<<46, 118, 101, 110, 118>>, "Python virtual environment">>,
    \* 35: env
    <<<<101, 110, 118>>, "Python virtual environment">>,
    \* 36: *.pyc
    <<<<42, 46, 112, 121, 99>>, "Compiled Python files">>,
    \* 37: *.pyo
    <<<<42, 46, 112, 121, 111>>, "Optimized Python files">>,
    \* 40: _build
    <<<<95, 98, 117, 105, 108, 100>>, "Elixir build artifacts">>,
    \* 43: build
    <<<<98, 117, 105, 108, 100>>, "Build output directory">>,
    \* 44: .gradle
    <<<<46, 103, 114, 97, 100, 108, 101>>, "Gradle build cache">>,
    \* 45: out
    <<<<111, 117, 116>>, "Output directory">>,
    \* 48: cmake-build-debug
    <<<<99, 109, 97, 107, 101, 45, 98, 117, 105, 108, 100, 45, 100, 101, 98, 117, 103>>, "CMake debug build artifacts">>,
    \* 49: cmake-build-release
    <<<<99, 109, 97, 107, 101, 45, 98, 117, 105, 108, 100, 45, 114, 101, 108, 101, 97, 115, 101>>, "CMake release build artifacts">>,
    \* 50: build-*
    <<<<98, 117, 105, 108, 100, 45, 42>>, "Wildcard build output directories">>,
    \* 53: DerivedData
    <<<<68, 101, 114, 105, 118, 101, 100, 68, 97, 116, 97>>, "Xcode derived data">>,
    \* 54: .DS_Store
    <<<<46, 68, 83, 95, 83, 116, 111, 114, 101>>, "macOS metadata">>,
    \* 57: .vscode
    <<<<46, 118, 115, 99, 111, 100, 101>>, "VS Code configuration">>,
    \* 58: .idea
    <<<<46, 105, 100, 101, 97>>, "JetBrains IDE configuration">>,
    \* 61: .cache
    <<<<46, 99, 97, 99, 104, 101>>, "Generic build cache">>,
    \* 62: .scannerwork
    <<<<46, 115, 99, 97, 110, 110, 101, 114, 119, 111, 114, 107>>, "SonarQube scanner cache">>,
    \* 65: *.log
    <<<<42, 46, 108, 111, 103>>, "Log files">>,
    \* 66: *.tmp
    <<<<42, 46, 116, 109, 112>>, "Temporary files">>,
    \* 67: *.bak
    <<<<42, 46, 98, 97, 107>>, "Backup files">>,
    \* 68: *.old
    <<<<42, 46, 111, 108, 100>>, "Old backup files">>,
    \* 69: *.swp
    <<<<42, 46, 115, 119, 112>>, "Vim swap files">>,
    \* 70: *.swo
    <<<<42, 46, 115, 119, 111>>, "Vim swap files">>,
    \* 71: .env
    <<<<46, 101, 110, 118>>, "Environment variable file">>,
    \* 72: docker-compose.override.yml
    <<<<100, 111, 99, 107, 101, 114, 45, 99, 111, 109, 112, 111, 115, 101, 46, 111, 118, 101, 114, 114, 105, 100, 101, 46, 121, 109, 108>>, "Docker override config">>,
    \* 73: *.db
    <<<<42, 46, 100, 98>>, "Database files">>,
    \* 74: *.sqlite3
    <<<<42, 46, 115, 113, 108, 105, 116, 101, 51>>, "SQLite database files">> }

\* scanner.rs 29-30: the entries filter_entry keeps (46 is '.')
IsHidden(name) == StartsWith(name, <<46>>) /\ name # <<46, 103, 105, 116>>

\* a walk that skips the hidden entries themselves and still descends into
\* them (Iterator::filter instead of filter_entry)
RECURSIVE WalkBelowUnpruned(_, _, _, _, _)
WalkBelowUnpruned(dir, f, depth, max_depth, prune) ==
  IF depth >= max_depth \/ dir \in Unreadable THEN {}
  ELSE UNION {(IF prune /\ IsHidden(FileName(c)) THEN {} ELSE {c})
                \cup WalkBelowUnpruned(c, f, depth + 1, max_depth, prune) :
              c \in Children(dir, f)}

\* the entries a walk yields beneath dir, which lies at the given depth:
\* WalkDir (scanner.rs 24-33, prune is TRUE) and WalkBuilder (105-113, prune
\* is FALSE: hidden(false), and no ignore file is read) descend to max_depth;
\* filter_entry skips a hidden entry together with all beneath it, and
\* filter_map(Result::ok) drops the error of a directory that cannot be read,
\* whose entries are then not seen
RECURSIVE WalkBelow(_, _, _, _, _)
WalkBelow(dir, f, depth, max_depth, prune) ==
  IF depth >= max_depth \/ dir \in Unreadable THEN {}
  ELSE UNION {{c} \cup WalkBelow(c, f, depth + 1, max_depth, prune) :
              c \in {k \in Children(dir, f) : ~(prune /\ IsHidden(FileName(k)))}}

\* the orders in which a walk yields the entries V beneath dir: depth first,
\* an entry before those beneath it, the entries of one directory in the
\* order read_dir gives them, which is any
RECURSIVE WalkOrders(_, _)
WalkOrders(dir, V) ==
  LET RECURSIVE Listings(_)
      Listings(K) ==
        IF K = {} THEN {<<>>}
        ELSE UNION {{<<c>> \o below \o rest :
                       below \in WalkOrders(c, V), rest \in Listings(K \ {c})} :
                    c \in K}
  IN Listings({c \in V : IsUnder(c, dir) /\ ~\E d \in V : IsUnder(c, d) /\ IsUnder(d, dir)})

\* split_into_chunks whose chunk size is rounded down, so that the entries
\* past chunk_count chunks are left out
split_into_chunks_rounded_down(items, chunk_count) ==
  LET chunk_size == Len(items) \div chunk_count
      started == {i \in 0..(chunk_count - 1) : chunk_size > 0 /\ i * chunk_size < Len(items)}
  IN [w \in 1..Cardinality(started) |->
        SubSeq(items, (w - 1) * chunk_size + 1, Min(w * chunk_size, Len(items)))]

\* scanner.rs 263-281
split_into_chunks(items, chunk_count) ==
  LET chunk_size == IF items = <<>> THEN 0 ELSE (Len(items) \div chunk_count) + 1
      started == {i \in 0..(chunk_count - 1) : i * chunk_size < Len(items)}
  IN [w \in 1..Cardinality(started) |->
        SubSeq(items, (w - 1) * chunk_size + 1, Min(w * chunk_size, Len(items)))]

\* the length metadata gives for an entry, scanner.rs 55-59 and 138-145
EntrySize(path) ==
  IF Tree[path].kind = "file" /\ path \notin Unreadable THEN Tree[path].bytes ELSE 0

\* scanner.rs 149: format!("Gitignore pattern: {}", pattern)
GitignoreType(pattern) == <<"Gitignore pattern: ", pattern>>

(***************************************************************************)
(* initialize_app (app.rs 361-388) and the command line (main.rs 19-46,    *)
(* 243-249).  In the runs of the Walker limits also holds the arguments    *)
(* path, gitignore and depth, and lines, the lines of /r/.gitignore; the   *)
(* session then carries current_dir, use_gitignore and max_depth.          *)
(***************************************************************************)
\* ".gitignore"
GitignoreName == <<46, 103, 105, 116, 105, 103, 110, 111, 114, 101>>

\* std::env::current_dir
Cwd == RootDir

\* App::new (models.rs 104-111), then run_app 17-18
App_new(target_dir, use_gitignore, max_depth) ==
  [current_dir |-> target_dir, use_gitignore |-> use_gitignore,
   max_depth |-> max_depth] @@ AppDefault

Err(e) == [ok |-> FALSE, error |-> e]
Ok(a) == [ok |-> TRUE, app |-> a]

\* initialize_app without the check of lines 380-385
initialize_app_unchecked(target_dir, use_gitignore, max_depth, f) ==
  IF target_dir # None /\ target_dir[1] \notin f THEN Err("Directory does not exist")
  ELSE IF target_dir # None /\ ~is_dir(target_dir[1], f) THEN Err("Not a directory")
  ELSE LET dir == IF target_dir # None THEN target_dir[1] ELSE Cwd
       IN Ok(App_new(dir, use_gitignore, max_depth))

\* app.rs 361-388; the paths here hold no link and no dot component, so
\* canonicalize returns the path it is given
initialize_app(target_dir, use_gitignore, max_depth, f) ==
  IF target_dir # None /\ target_dir[1] \notin f THEN Err("Directory does not exist")
  ELSE IF target_dir # None /\ ~is_dir(target_dir[1], f) THEN Err("Not a directory")
  ELSE LET dir == IF target_dir # None THEN target_dir[1] ELSE Cwd
       IN IF use_gitignore /\ Join(dir, GitignoreName) \notin f
          THEN Err("No .gitignore file found")
          ELSE Ok(App_new(dir, use_gitignore, max_depth))

\* main.rs 243-258: initialize_app, and on Ok run_app, which spawns the scan
InitializeApp ==
  /\ loop = "init"
  /\ LET r == initialize_app(limits.path, limits.gitignore, limits.depth, fs)
     IN IF r.ok
        THEN app' = r.app /\ loop' = "recv" /\ scans' = <<ScanSpawned>>
        ELSE loop' = "failed" /\ UNCHANGED <<app, scans>>
  /\ UNCHANGED <<scan_rx, fs, clean, events, hist, limits>>

\* the environment: /r/.gitignore is removed once the session exists and
\* before the Walker of the latest scan looks for it
GitignoreRemoved ==
  /\ scans # <<>> /\ scans[Len(scans)].pc = "walk"
  /\ GitignoreFile \in fs
  /\ fs' = fs \ {GitignoreFile}
  /\ UNCHANGED <<app, loop, scan_rx, scans, clean, events, hist, limits>>

(***************************************************************************)
(* scan_directory (scanner.rs 12-172), one action per step of a thread.    *)
(***************************************************************************)
\* the Walker's threads are spawned on the chunks of entries
WalkStart(s, entries) ==
  LET chunks == split_into_chunks(entries, limits.threads)
  IN scans' = [scans EXCEPT ![s].pc = "match",
                            ![s].walk = [NoWalk EXCEPT !.chunks = chunks,
                                                       !.local = [w \in DOMAIN chunks |-> <<>>]]]

\* scanner.rs 24-35 and 88-114: in gitignore mode the scan returns no item
\* when the file is absent or holds no pattern; otherwise the entries are
\* collected, the root first in gitignore mode (WalkBuilder yields it, at
\* depth 0), and split into chunks
WalkCollect(s) ==
  /\ Running /\ scans[s].pc = "walk"
  /\ LET dir == app.current_dir
         below == WalkBelow(dir, fs, 0, app.max_depth, ~app.use_gitignore)
     IN IF app.use_gitignore /\ (\/ Join(dir, GitignoreName) \notin fs
                                 \/ read_gitignore(limits.lines) = <<>>)
        THEN scans' = [scans EXCEPT ![s].pc = "sendFound", ![s].items = <<>>]
        ELSE \E order \in WalkOrders(dir, below) :
               WalkStart(s, IF app.use_gitignore THEN <<dir>> \o order ELSE order)
  /\ UNCHANGED <<app, loop, scan_rx, fs, clean, events, hist, limits>>

\* MatchCatalog without the break of line 67: an item is pushed for every
\* pattern that matches
MatchCatalogEveryPattern(s, w) ==
  LET path == Head(scans[s].walk.chunks[w])
      name == FileName(path)
      matching == {e \in CLEANABLE_PATTERNS : pattern_matches(e[1], name)}
  IN \E order \in Orders(matching) :
       scans' = [scans EXCEPT ![s].walk.chunks[w] = Tail(@),
                              ![s].walk.local[w] =
                                  @ \o [i \in DOMAIN order |->
                                          CleanableItem(path, order[i][2], EntrySize(path))]]

\* scanner.rs 43-69: a thread of the catalog scan takes its next entry; the
\* first pattern to match in the HashMap's iteration order, which is any,
\* gives the description
MatchCatalog(s, w) ==
  LET path == Head(scans[s].walk.chunks[w])
      name == FileName(path)
      matching == {e \in CLEANABLE_PATTERNS : pattern_matches(e[1], name)}
  IN IF matching = {}
     THEN scans' = [scans EXCEPT ![s].walk.chunks[w] = Tail(@)]
     ELSE \E e \in matching :
            scans' = [scans EXCEPT ![s].walk.chunks[w] = Tail(@),
                                   ![s].walk.local[w] =
                                       Append(@, CleanableItem(path, e[2], EntrySize(path)))]

\* scanner.rs 127-156: a thread of the gitignore scan takes its next entry;
\* the first pattern of the file to match decides, and the item is pushed
\* unless the path is in seen_paths
MatchGitignore(s, w) ==
  LET path == Head(scans[s].walk.chunks[w])
      rel_path_str == StripPrefix(path, app.current_dir)
      patterns == read_gitignore(limits.lines)
      matching == {i \in DOMAIN patterns : matches_gitignore_pattern(patterns[i], rel_path_str)}
  IN IF matching = {} \/ path \in scans[s].walk.seen
     THEN scans' = [scans EXCEPT ![s].walk.chunks[w] = Tail(@)]
     ELSE LET pattern == patterns[CHOOSE i \in matching : \A j \in matching : i <= j]
          IN scans' = [scans EXCEPT ![s].walk.chunks[w] = Tail(@),
                                    ![s].walk.seen = @ \cup {path},
                                    ![s].walk.local[w] =
                                        Append(@, CleanableItem(path, GitignoreType(pattern),
                                                                EntrySize(path)))]

WalkEntry(s, w) ==
  /\ Running /\ scans[s].pc = "match"
  /\ w \in DOMAIN scans[s].walk.chunks
  /\ scans[s].walk.chunks[w] # <<>>
  /\ IF app.use_gitignore THEN MatchGitignore(s, w) ELSE MatchCatalog(s, w)
  /\ UNCHANGED <<app, loop, scan_rx, fs, clean, events, hist, limits>>

\* scanner.rs 72-73 and 159-160: the thread appends its items to the shared
\* vector and ends
WalkExtend(s, w) ==
  /\ Running /\ scans[s].pc = "match"
  /\ w \in DOMAIN scans[s].walk.chunks
  /\ scans[s].walk.chunks[w] = <<>>
  /\ w \notin scans[s].walk.extended
  /\ scans' = [scans EXCEPT ![s].walk.items = @ \o scans[s].walk.local[w],
                            ![s].walk.extended = @ \cup {w}]
  /\ UNCHANGED <<app, loop, scan_rx, fs, clean, events, hist, limits>>

\* scanner.rs 79-84 and 166-171: every thread is joined and the shared
\* vector returned
WalkJoin(s) ==
  /\ Running /\ scans[s].pc = "match"
  /\ scans[s].walk.extended = DOMAIN scans[s].walk.chunks
  /\ scans' = [scans EXCEPT ![s].pc = "sendFound", ![s].items = scans[s].walk.items]
  /\ UNCHANGED <<app, loop, scan_rx, fs, clean, events, hist, limits>>

(***************************************************************************)
(* The runs of the Walker: the program is started with any of the          *)
(* arguments below on any of the trees below, and the scan runs to its     *)
(* end; no key is pressed.                                                 *)
(***************************************************************************)
\* --path: none, /r, the regular file /f, and /m, which does not exist
Targets == {None, Some(RootDir), Some(PlainFile), Some(<<47, 109>>)}

\* what lies in /r besides .gitignore
WalkTrees ==
  { {},
    {TargetDir, TargetA, TargetD, TargetDB, TargetDC},
    {TargetDir, TargetA, TargetU, TargetUE, TargetV},
    {NextDir, NextOut, GitDir, GitBuild},
    {SubDir, SubTarget, SubTargetX, BuildLog} }

\* the lines of /r/.gitignore:
\*   "# c", " target/ ", "!keep"      "*"      "*.log", "log"      "# c", ""
GitignoreFiles ==
  { << <<35, 32, 99>>, <<32, 116, 97, 114, 103, 101, 116, 47, 32>>, <<33, 107, 101, 101, 112>> >>,
    << <<42>> >>,
    << <<42, 46, 108, 111, 103>>, <<108, 111, 103>> >>,
    << <<35, 32, 99>>, <<>> >> }

\* the program is about to be started on one of the trees, with one of the
\* targets and modes and with one of the .gitignore files
StartWalk(trees, targets, modes, files, max_scans, max_events) ==
  /\ app = None
  /\ loop = "init"
  /\ scan_rx = <<>>
  /\ scans = <<>>
  /\ \E t \in trees, g \in SUBSET {GitignoreFile} : fs = {RootDir, PlainFile} \cup t \cup g
  /\ clean = CleanIdle
  /\ events = 0
  /\ hist = HistInit
  /\ \E n \in 2..WalkThreads, path \in targets, gitignore \in modes,
        depth \in 1..MaxDepth, lines \in files \cup {<<>>} :
       /\ lines # <<>> <=> GitignoreFile \in fs
       /\ limits = [scans |-> max_scans, events |-> max_events, threads |-> n, path |-> path,
                    gitignore |-> gitignore, depth |-> depth, lines |-> lines]

InitWalk == StartWalk(WalkTrees, Targets, BOOLEAN, GitignoreFiles, 1, 0)

WalkStep(s) ==
  \/ WalkCollect(s)
  \/ \E w \in DOMAIN scans[s].walk.chunks : WalkEntry(s, w) \/ WalkExtend(s, w)
  \/ WalkJoin(s)

NextWalk ==
  \/ InitializeApp
  \/ GitignoreRemoved
  \/ \E s \in DOMAIN scans : WalkStep(s)
  \/ \E s \in DOMAIN scans :
       \/ ScanSendFound(s)
       \/ ScanSendScanned(s)
       \/ ScanSendComplete(s)
       \/ ScanCount(s)
       \/ ScanCalculate(s)
       \/ ScanRelay(s)
       \/ ScanRelayScanned(s)
       \/ ScanRelayClosed(s)
       \/ ScanSendSizeDone(s)
       \/ ScanSendFinal(s)
  \/ \E s \in DOMAIN scans : \E w \in DOMAIN scans[s].workers : SizeWorker(s, w)
  \/ ProcessUpdate
  \/ NoUpdate
  \/ NoEvent

SpecWalk == InitWalk /\ [][NextWalk]_vars

\* the walker with rescans: /r with one log file that .gitignore names and
\* RepeatScans scans, or /r with an empty target directory that .gitignore
\* names and one scan
InitWalkRepeat ==
  \/ StartWalk({{BuildLog}}, {Some(RootDir)}, {TRUE},
               {<< <<42, 46, 108, 111, 103>>, <<108, 111, 103>> >>},
               RepeatScans, RepeatEvents)
  \/ StartWalk({{TargetDir}}, {Some(RootDir)}, BOOLEAN,
               {<< <<35, 32, 99>>, <<32, 116, 97, 114, 103, 101, 116, 47, 32>>, <<33, 107, 101, 101, 112>> >>},
               1, 0)

NextWalkRepeat ==
  \/ NextWalk
  \/ KeyEvent("r")

SpecWalkRepeat == InitWalkRepeat /\ [][NextWalkRepeat]_vars

(***************************************************************************)
(* Properties of the Walker and the Size Resolver.                         *)
(***************************************************************************)
\* the regular files beneath directory p, at any depth, that can be read:
\* neither the file nor a directory on the way to it is unreadable
FilesBeneath(p, f) ==
  {q \in f : /\ Tree[q].kind = "file"
             /\ IsUnder(q, p)
             /\ q \notin Unreadable
             /\ \A d \in Unreadable : ~(IsUnder(q, d) /\ (d = p \/ IsUnder(d, p)))}

\* the (path, size) pairs scan s has resolved: those in its size channel and
\* those passed on as SizeUpdate
Resolved(s) ==
  {scans[s].size_rx[i] : i \in DOMAIN scans[s].size_rx}
    \cup {<<scan_rx[i].path, scan_rx[i].size>> :
            i \in {j \in DOMAIN scan_rx : scan_rx[j].type = "SizeUpdate"}}

\* C21: the size resolved for a directory is the sum of the lengths of all
\* regular files at any depth beneath it, nested subdirectories included,
\* with no depth limit and no pattern filter; an empty directory resolves
\* to 0 and an entry that cannot be read contributes 0.
C21_SizeIsSumOfFilesBeneath ==
  \A s \in DOMAIN scans : \A e \in Resolved(s) :
    /\ is_dir(e[1], fs)
    /\ e[2] = SumBytes(FilesBeneath(e[1], fs))
    /\ FilesBeneath(e[1], fs) = {} => e[2] = 0

C21_Witness ==
  /\ app # None /\ app.max_depth = 1
  /\ <<TargetDir, 350>> \in Resolved(1)
  /\ {TargetA, TargetDB, TargetDC} \subseteq FilesBeneath(TargetDir, fs)

\* the path and every directory on the way to it from dir, dir left out
WithAncestors(path, dir) ==
  {SubSeq(path, 1, i) : i \in {k \in (Len(dir) + 1)..Len(path) :
                                 k = Len(path) \/ path[k + 1] = 47}}

\* the items scan s has matched so far: those its threads hold, those in the
\* shared vector and those returned
Matched(s) ==
  UNION {Range(scans[s].walk.local[w]) : w \in DOMAIN scans[s].walk.local}
    \cup Range(scans[s].walk.items) \cup Range(scans[s].items)

MatchedPaths(s) == {item.path : item \in Matched(s)}

\* C22: in non-gitignore mode no entry whose basename starts with '.'
\* (other than .git) and no descendant of such an entry ever appears in the
\* scan result, at any depth up to max_depth.
C22_HiddenSubtreesNeverReported ==
  \A s \in DOMAIN scans :
    ~app.use_gitignore =>
      \A p \in MatchedPaths(s) : \A a \in WithAncestors(p, app.current_dir) :
        ~(a[Len(a) - Len(FileName(a)) + 1] = 46 /\ FileName(a) # FileName(GitDir))

C22_Witness ==
  /\ scans # <<>> /\ ~app.use_gitignore
  /\ scans[1].pc = "sendFound"
  /\ {NextDir, NextOut, GitBuild} \subseteq fs
  /\ app.max_depth = 2
  /\ MatchedPaths(1) = {GitBuild}

\* the Walker of scan s has returned its items
WalkReturned(s) == scans[s].pc \notin {"walk", "match"}

\* C23: for every catalog pattern key that contains no '*', an entry within
\* the depth ceiling whose name is exactly that key is reported by the
\* non-gitignore scan as an item carrying that key's catalog description.
C23_ExactKeyEntriesReported ==
  \A s \in DOMAIN scans :
    (~app.use_gitignore /\ WalkReturned(s)) =>
      \A e \in CLEANABLE_PATTERNS : \A q \in fs :
        (/\ ~HasByte(e[1], 42)
         /\ IsUnder(q, app.current_dir)
         /\ Depth(q, app.current_dir) <= app.max_depth
         /\ FileName(q) = e[1]) =>
          \E item \in Range(scans[s].items) : item.path = q /\ item.item_type = e[2]

\* C24: in catalog mode and in gitignore mode the scan root itself is never
\* reported as an item and no reported item lies deeper than max_depth below
\* the root, for every catalog and every set of .gitignore rules, glob rules
\* and trailing-slash rules included.
C24_RootNeverReportedDepthBounded ==
  \A s \in DOMAIN scans : \A p \in MatchedPaths(s) :
    /\ p # app.current_dir
    /\ IsUnder(p, app.current_dir)
    /\ Depth(p, app.current_dir) \in 1..app.max_depth

\* the paths a walk of the tree f beneath dir matches: the entries within
\* max_depth (in gitignore mode dir itself too) that some pattern of the
\* catalog, or of .gitignore, matches
ExpectedPaths(dir, f, use_gitignore, max_depth) ==
  IF use_gitignore
  THEN IF Join(dir, GitignoreName) \notin f THEN {}
       ELSE {q \in {p \in f : p = dir \/ (IsUnder(p, dir) /\ Depth(p, dir) <= max_depth)} :
               /\ \A d \in Unreadable : ~IsUnder(q, d)
               /\ \E i \in DOMAIN read_gitignore(limits.lines) :
                    matches_gitignore_pattern(read_gitignore(limits.lines)[i],
                                              StripPrefix(q, dir))}
  ELSE {q \in {p \in f : IsUnder(p, dir) /\ Depth(p, dir) <= max_depth} :
          /\ \A d \in Unreadable : ~IsUnder(q, d)
          /\ \A a \in WithAncestors(q, dir) : ~IsHidden(FileName(a))
          /\ \E e \in CLEANABLE_PATTERNS : pattern_matches(e[1], FileName(q))}

UniquePaths(items) ==
  \A i, j \in DOMAIN items : items[i].path = items[j].path => i = j

\* the items of the Walker's threads of scan s laid end to end: the shared
\* vector, then what each thread has yet to append to it
Pushed(s) ==
  scans[s].walk.items
    \o Flatten([w \in DOMAIN scans[s].walk.local |->
                  IF w \in scans[s].walk.extended THEN <<>> ELSE scans[s].walk.local[w]])

\* C26: the list a scan returns holds no two items with the same path, in
\* both modes: each walked entry yields at most one item, also when several
\* patterns or rules match it; and the session's item list keeps its paths
\* unique in every reachable state.
C26_PathsAreUnique ==
  /\ \A s \in DOMAIN scans :
       /\ UniquePaths(Pushed(s))
       /\ UniquePaths(scans[s].items)
  /\ \A i \in DOMAIN scan_rx :
       scan_rx[i].type = "ItemsFound" => UniquePaths(scan_rx[i].items)
  /\ app # None => UniquePaths(app.items)

C26_Witness ==
  /\ app # None /\ app.state = "Selecting"
  /\ Len(app.items) >= 2
  /\ Cardinality({i \in DOMAIN read_gitignore(limits.lines) :
                    matches_gitignore_pattern(read_gitignore(limits.lines)[i],
                                              StripPrefix(app.items[1].path, app.current_dir))}) = 2

\* the command line names a target that does not exist or is no directory,
\* or asks for gitignore mode in a directory that has no .gitignore
ConfigurationError ==
  \/ limits.path # None /\ limits.path[1] \notin fs
  \/ limits.path # None /\ limits.path[1] \in fs /\ Tree[limits.path[1]].kind # "dir"
  \/ /\ limits.gitignore
     /\ Join(IF limits.path # None THEN limits.path[1] ELSE Cwd, GitignoreName) \notin fs

\* C27: initialize_app returns an error and creates no session, so that no
\* scan is ever started, when the target directory does not exist, when the
\* target is not a directory, or when gitignore mode is requested and the
\* directory has no .gitignore; otherwise it returns a session in state
\* Scanning with an empty item list.
C27_InitializeAppRejectsBadConfiguration ==
  [][/\ InitializeApp =>
          IF ConfigurationError
          THEN loop' = "failed" /\ app' = None /\ scans' = <<>>
          ELSE /\ app' # None
               /\ app'.state = "Scanning"
               /\ app'.items = <<>>
               /\ Len(scans') = 1
       /\ loop = "failed" => (app' = None /\ scans' = <<>>)]_vars

C27_Witness ==
  /\ loop = "failed" /\ app = None /\ scans = <<>>
  /\ limits.gitignore
  /\ limits.path = Some(RootDir)
  /\ GitignoreFile \notin fs

(***************************************************************************)
(* The Walker over rescans.                                               *)
(***************************************************************************)
\* the session runs in gitignore mode and the root has no .gitignore
GitignoreGone == scans # <<>> /\ app.use_gitignore /\ GitignoreFile \notin fs

\* every scan task has ended and every update has been applied
WalkQuiescent ==
  /\ scans # <<>>
  /\ \A s \in DOMAIN scans : scans[s].pc = "done"
  /\ scan_rx = <<>>

\* C28: in gitignore mode, when the root has no .gitignore file (it was
\* removed before a rescan, for example), the scan returns zero items
\* instead of failing, and the session still reaches Selecting with an
\* empty list.  .gitignore can only disappear while the latest scan is about
\* to walk, so once it is gone the latest scan walked without it; the
\* session has come to rest when every scan task has ended and every update
\* has been applied.
C28_LatestScanWithoutGitignoreEndsEmpty ==
  GitignoreGone =>
    /\ WalkReturned(Len(scans)) => scans[Len(scans)].items = <<>>
    /\ WalkQuiescent => app.state = "Selecting" /\ app.items = <<>>

\* a step of a Walker, Size Resolver or Cleaner worker
WorkerStep ==
  \/ \E s \in DOMAIN scans : ScanStep(s)
  \/ \E s \in DOMAIN scans : \E w \in DOMAIN scans[s].workers : SizeWorker(s, w)
  \/ CleanerStep

\* a step of the control context that may write the item list: a scan
\* update is applied, a user action is handled, clean results are reconciled
ControlStep ==
  \/ ProcessUpdate
  \/ \E k \in Keys : KeyEvent(k)
  \/ CleanFinish

\* C29: the session's item list has exactly one writer: it changes only in
\* steps of the control context (a scan update applied, a user action
\* handled, clean results reconciled); no step of a Walker, Size Resolver or
\* Cleaner worker changes it.
C29_ItemListHasOneWriter ==
  [][/\ WorkerStep => app'.items = app.items
     /\ app'.items # app.items => ControlStep]_vars

\* a directory was sized by a worker and a selected item deleted by the
\* Cleaner, and the list the session holds reflects both
C29_Witness ==
  /\ app.state = "Complete"
  /\ Len(app.items) < Len(hist.pre_items)
  /\ \E i \in DOMAIN hist.pre_items :
       /\ Tree[hist.pre_items[i].path].kind = "dir"
       /\ hist.pre_items[i].size > 0

\* every item a scan task holds or has sent is unselected
CreatedUnselected ==
  /\ \A s \in DOMAIN scans : \A i \in DOMAIN scans[s].items : ~scans[s].items[i].selected
  /\ \A n \in DOMAIN scan_rx :
       scan_rx[n].type = "ItemsFound" =>
         \A i \in DOMAIN scan_rx[n].items : ~scan_rx[n].items[i].selected

\* C30: an item's selected flag is false when the Walker creates it and
\* afterwards changes only through a ToggleSelection user action (space in
\* Selecting): no scan update and no Cleaner result changes the selected flag
\* of a path the session lists, under any interleaving of updates and user
\* actions.
C30_SelectedChangesOnlyByToggle ==
  /\ []CreatedUnselected
  /\ [][\A i \in DOMAIN app.items : \A j \in DOMAIN app'.items :
          (/\ app.items[i].path = app'.items[j].path
           /\ app.items[i].selected # app'.items[j].selected)
            => (app.state = "Selecting" /\ KeyEvent("space"))]_vars

(***************************************************************************)
(* The order of a deletion unit's steps.  hist.log[i] lists what unit i    *)
(* (the unit of index i - 1) has done: the messages it sent, the delete    *)
(* call, the push of its result.                                           *)
(***************************************************************************)
\* what the unit of the i-th selected item does, in order
UnitProtocol(i) ==
  LET selected == SelectSeq(hist.pre_items, IsSelected)
  IN << <<"send", i - 1, Len(selected), Some(display_path(selected[i]))>>,
        <<"delete">>,
        <<"record">>,
        <<"send", i, Len(selected), None>> >>

IsPrefix(s, t) == Len(s) <= Len(t) /\ s = SubSeq(t, 1, Len(s))

\* C31: for every selected item with index i, the deletion unit sends the
\* start message (i, total, Some(path)) before it attempts the deletion,
\* records its CleanResult after the deletion attempt, and sends the
\* completion message (i+1, total, None) only after the result has been
\* recorded; each unit sends exactly these two messages.
C31_UnitAnnouncesDeletesRecordsAnnounces ==
  /\ DOMAIN hist.log = DOMAIN SelectSeq(hist.pre_items, IsSelected)
  /\ \A i \in DOMAIN hist.log :
       /\ IsPrefix(hist.log[i], UnitProtocol(i))
       /\ app.state = "Complete" => hist.log[i] = UnitProtocol(i)

\* a clean of two items is over and both units went through every step
C31_Witness ==
  /\ app.state = "Complete"
  /\ Len(hist.log) = 2
  /\ hist.log[1] = UnitProtocol(1) /\ hist.log[2] = UnitProtocol(2)

\* C36: whenever the state is Selecting and the item list is non-empty, the
\* selection cursor is set and is a valid index (less than the number of
\* items), after any sequence of scan updates, navigation, toggles, cleans,
\* help toggles and rescans.
C36_CursorValidInSelecting ==
  (app.state = "Selecting" /\ app.items # <<>>) =>
    (app.list_state # None /\ app.list_state[1] < Len(app.items))

(***************************************************************************)
(* Navigation and selection in Selecting.                                  *)
(***************************************************************************)
\* the user actions, by the keys and mouse scrolls bound to them
NavigateNext == KeyEvent("j") \/ MouseEvent("ScrollDown")
NavigatePrevious == KeyEvent("k") \/ MouseEvent("ScrollUp")

RECURSIVE Times(_, _)
\* n successive NavigateNext actions on session a
Times(a, n) == IF n = 0 THEN a ELSE Times(next(a), n - 1)

\* the cursor is set and on an item
CursorOnItem(a) == a.list_state # None /\ a.list_state[1] < Len(a.items)

\* C32: in Selecting with a non-empty list of n items, NavigateNext moves the
\* cursor from i to i+1 and from n-1 to 0, NavigatePrevious moves it from i
\* to i-1 and from 0 to n-1, and either action sets an unset cursor to 0;
\* with an empty list both leave the cursor unchanged.  Neither changes the
\* items, and n successive NavigateNext actions return a cursor that is on an
\* item to where it started.
C32_NavigationWrapsAndKeepsItems ==
  /\ []((app.state = "Selecting" /\ CursorOnItem(app)) =>
          Times(app, Len(app.items)).list_state = app.list_state)
  /\ [][app.state = "Selecting" =>
          LET n == Len(app.items)
              c == app.list_state
          IN /\ (NavigateNext \/ NavigatePrevious) =>
                  /\ app'.items = app.items
                  /\ app'.state = "Selecting"
                  /\ n = 0 => app'.list_state = c
                  /\ (n > 0 /\ c = None) => app'.list_state = Some(0)
             /\ (NavigateNext /\ n > 0 /\ c # None) =>
                  /\ c[1] < n - 1 => app'.list_state = Some(c[1] + 1)
                  /\ c[1] = n - 1 => app'.list_state = Some(0)
             /\ (NavigatePrevious /\ n > 0 /\ c # None) =>
                  /\ c[1] > 0 => app'.list_state = Some(c[1] - 1)
                  /\ c[1] = 0 => app'.list_state = Some(n - 1)]_vars

\* two items are listed and one navigation has moved the cursor off the
\* first item
C32_Witness ==
  /\ app.state = "Selecting" /\ Len(app.items) = 2
  /\ app.list_state = Some(1)
  /\ events = 1

\* the user action bound to the space key
ToggleSelection == KeyEvent("space")

\* a clean has run and removed at least one item from the list
CleanRemovedItems ==
  /\ clean = CleanIdle
  /\ hist.pre_items # <<>>
  /\ hist.deleted # {}

\* C33: ToggleSelection in Selecting flips the selected flag of the item under
\* the cursor only (every other item and the item order are unchanged), and
\* afterwards total_size equals the sum of the sizes of the currently
\* selected items; with no cursor or an out-of-range cursor it changes no
\* flag.  This relation between total_size and the selection keeps holding
\* in Selecting after a clean has removed items.
C33_ToggleFlipsOneFlagAndTotals ==
  /\ [][(app.state = "Selecting" /\ ToggleSelection) =>
          /\ Len(app'.items) = Len(app.items)
          /\ \A i \in DOMAIN app.items :
               /\ [app'.items[i] EXCEPT !.selected = FALSE] = [app.items[i] EXCEPT !.selected = FALSE]
               /\ (app'.items[i].selected # app.items[i].selected)
                    <=> (app.list_state # None /\ app.list_state[1] = i - 1)
          /\ app'.total_size = selected_size(app')]_vars
  /\ []((app.state = "Selecting" /\ CleanRemovedItems) => app.total_size = selected_size(app))

(***************************************************************************)
(* The chunks of the Walker.                                               *)
(***************************************************************************)
\* chunks are at most n non-empty slices of items that follow one another
\* and leave nothing out
IsChunking(chunks, items, n) ==
  /\ Len(chunks) <= n
  /\ \A w \in DOMAIN chunks : chunks[w] # <<>>
  /\ Flatten(chunks) = items

\* the entries the Walker of the session collects, scanner.rs 24-35 and 102-114
WalkEntries ==
  WalkBelow(app.current_dir, fs, 0, app.max_depth, ~app.use_gitignore)
    \cup (IF app.use_gitignore THEN {app.current_dir} ELSE {})

\* C34: for every entry list of length L >= 0 and every worker count
\* n >= 2, split_into_chunks returns at most n chunks, none of them empty,
\* that are contiguous slices whose concatenation in order is the input:
\* when the Walker spawns its threads, the chunks it hands them are at most
\* limits.threads, none is empty, and laid end to end they hold every entry
\* collected exactly once; and the same holds of split_into_chunks on every
\* prefix of that entry list (every length from 0) with every worker count
\* from 2 to MaxThreads.
C34_ChunksPartitionTheEntries ==
  [][\A s \in DOMAIN scans :
       (scans[s].pc = "walk" /\ scans'[s].pc = "match") =>
         LET chunks == scans'[s].walk.chunks
             entries == Flatten(chunks)
         IN /\ IsChunking(chunks, entries, limits.threads)
            /\ {entries[i] : i \in DOMAIN entries} = WalkEntries
            /\ \A i, j \in DOMAIN entries : entries[i] = entries[j] => i = j
            /\ \A n \in 2..MaxThreads, L \in 0..Len(entries) :
                 IsChunking(split_into_chunks(SubSeq(entries, 1, L), n),
                            SubSeq(entries, 1, L), n)]_vars

\* the Walker has just split six entries (/r and the five below it) for
\* two threads: two chunks of four and two entries
C34_Witness ==
  /\ scans # <<>> /\ scans[1].pc = "match"
  /\ Len(scans[1].walk.chunks) = 2
  /\ Len(scans[1].walk.chunks[1]) = 4
  /\ Len(scans[1].walk.chunks[2]) = 2
  /\ scans[1].walk.local = <<(<<>>), (<<>>)>>

(***************************************************************************)
(* The scan channel over rescans.                                          *)
(***************************************************************************)
\* the update try_recv yields next was sent by a scan before the latest
StaleUpdate == scan_rx # <<>> /\ Head(scan_rx).scan < Len(scans)

\* C35: every scan update applied to the session was produced by the most
\* recently started scan: an update that an earlier scan's task sent
\* changes neither the session's state nor its items nor its counters.
C35_OnlyLatestScanUpdatesApplied ==
  [][(ProcessUpdate /\ StaleUpdate) =>
       /\ app'.state = app.state
       /\ app'.items = app.items
       /\ app'.scanned_items = app.scanned_items
       /\ app'.total_size = app.total_size
       /\ app'.total_size_jobs = app.total_size_jobs
       /\ app'.completed_size_jobs = app.completed_size_jobs]_vars

(***************************************************************************)
(* The size stage when a directory vanishes.  Something outside the        *)
(* program removes a directory that the scan has counted (app.rs 142-145)  *)
(* before the Size Resolver filters the list again (scanner.rs 178-182)    *)
(* or before its worker sizes it (scanner.rs 200).                         *)
(***************************************************************************)
DirectoryVanishes ==
  /\ Running
  /\ \E s \in DOMAIN scans :
       /\ scans[s].pc \in {"calc", "relay", "relayScanned"}
       /\ \E i \in DOMAIN scans[s].items :
            /\ scans[s].items[i].size = 0
            /\ is_dir(scans[s].items[i].path, fs)
            /\ fs' = Removed(fs, scans[s].items[i].path)
  /\ UNCHANGED <<app, loop, scan_rx, scans, clean, events, hist, limits>>

InitVanish == Start({{DirA}, {DirA, DirB}}, LiveScans, LiveEvents)

NextVanish == Next \/ DirectoryVanishes

SpecVanish == InitVanish /\ [][NextVanish]_vars /\ Fairness

\* C37: the size-resolution stage of a scan always terminates: under fair
\* scheduling and without a Quit, a scan task that has counted the
\* directories to size goes on to send SizeCalculationComplete, after the
\* expected number of sizes or after the workers have finished and the size
\* channel has closed, and the session leaves Scanning, also when a
\* directory vanished between counting and resolving so that fewer sizes
\* than expected are emitted.
C37_SizeStageTerminates ==
  /\ \A s \in 1..LiveScans :
       (s \in DOMAIN scans /\ scans[s].pc \in {"calc", "relay", "relayScanned"})
         ~> ((s \in DOMAIN scans /\ scans[s].pc \in {"sendFinal", "done"}) \/ loop = "exited")
  /\ (app.state = "Scanning" /\ \E s \in DOMAIN scans : scans[s].completed < scans[s].total)
       ~> (app.state = "Selecting" \/ loop = "exited")

\* two directories were counted, one size was emitted, and the scan has
\* ended with the session in Selecting
C37_Witness ==
  /\ app.state = "Selecting"
  /\ events = 0
  /\ scans[1].pc = "done"
  /\ scans[1].total = 2
  /\ scans[1].completed = 1
  /\ scan_rx = <<>>

(***************************************************************************)
(* What the keys leave alone outside Selecting.                            *)
(***************************************************************************)
StartClean == KeyEvent("c")
RescanRequested == KeyEvent("r")

\* one of the five actions of the user on the list
ListAction ==
  NavigateNext \/ NavigatePrevious \/ ToggleSelection \/ StartClean \/ RescanRequested

\* items, selected flags included, deletions and scans are as they were
ListUntouched ==
  /\ app'.items = app.items
  /\ clean' = clean
  /\ fs' = fs
  /\ scans' = scans

\* C38: in Scanning, Help and Complete, NavigateNext, NavigatePrevious,
\* ToggleSelection, StartClean and RescanRequested change no item's selected
\* flag, remove no item, start no deletion and start no scan; a step of
\* these actions that changes a selected flag, launches a clean or spawns
\* a scan is taken in Selecting.
C38_ListActionsActOnlyInSelecting ==
  /\ [][(app.state \in {"Scanning", "Help", "Complete"} /\ ListAction) => ListUntouched]_vars
  /\ [][(ListAction /\ ~ListUntouched) => app.state = "Selecting"]_vars

\* a clean has removed an item, 'h' was pressed in Complete and NavigateNext
\* has acted in Help: the help text is scrolled, and nothing but the clean
\* has touched the list
C38_Witness ==
  /\ app.state = "Help"
  /\ app.previous_state = Some("Complete")
  /\ app.help_scroll = 1
  /\ hist.deleted # {}
  /\ Len(scans) = 1
  /\ events = 4

(***************************************************************************)
(* The item shown when a clean ends.                                       *)
(***************************************************************************)
\* C39: when a clean completes (the state becomes Complete),
\* processing_item is None and the progress shown is that of some unit's
\* completion message, (i, total) with i from 1, whatever the order in
\* which the units sent their start and completion messages; it stays so
\* while the session is in Complete.
C39_NoItemShownWhenComplete ==
  app.state = "Complete" =>
    /\ app.processing_item = None
    /\ \E i \in 1..Len(SelectSeq(hist.pre_items, IsSelected)) :
         app.progress = <<i, Len(SelectSeq(hist.pre_items, IsSelected))>>

\* a clean of two items has completed, the unit of the first item having
\* sent its completion message last
C39_Witness ==
  /\ app.state = "Complete"
  /\ Len(hist.log) = 2
  /\ app.progress = <<1, 2>>
  /\ app.processing_item = None

=============================================================================
